---- MODULE Spec2Model ----
(***************************************************************************)
(* Timetracker: the activity store (src/core/database.py), the timeline    *)
(* merger (src/gui/timeline.py), the smart project assigner                *)
(* (src/utils/smart_project_assigner.py), the activity tracker             *)
(* (src/core/tracker.py) and the batch cleanup (cleanup_overlaps.py).      *)
(*                                                                         *)
(* Time is counted in whole seconds from an arbitrary origin; a datetime   *)
(* is the number of seconds since that origin.  The store is the table     *)
(* `activities` as seen through the single shared sqlite connection;       *)
(* `committed` is what has reached the database file.                      *)
(***************************************************************************)
EXTENDS Integers, Sequences, FiniteSets, TLC

\* ---------------------------------------------------------------- bounds
MaxTime == 3        \* datetimes range over 0..MaxTime
MaxId == 3          \* save_activity is called until this many ids are used
MaxConcTime == 2    \* datetimes of the concurrent callers range over 0..MaxConcTime
MaxConcId == 3      \* ids used by the concurrent callers
MaxLen == 3         \* length of the list handed to _merge_activities
MaxStart == 2       \* timestamps of that list range over 0..MaxStart
MaxDuration == 2    \* its durations range over 1..MaxDuration
MaxGap == 1         \* merge_gap and project_merge_gap range over 0..MaxGap
MaxHistory == 3     \* the assigner learns from up to MaxHistory activities
MaxLearnDuration == 3   \* their durations range over 0..MaxLearnDuration
MaxRelearnHistory == 2  \* history length when the assigner learns repeatedly
MaxLearns == 2      \* learn_from_history calls on one assigner
MaxClock == 3       \* the tracker's clock runs over 1..MaxClock seconds
MaxCalls == 3       \* start() and stop() calls on one tracker
MaxThreads == 2     \* tracking loop threads alive at once
MaxIdle == 2        \* platform idle time ranges over 0..MaxIdle
MaxCleanupRows == 3 \* activities stored when the cleanup starts
MaxLimit == 2       \* get_suggestions_for_review: limit ranges over 1..MaxLimit
MaxMinDuration == 2 \* and min_duration over 1..MaxMinDuration

\* ------------------------------------------------------------- constants
None == 0                   \* Python None / SQL NULL for project_id
SocialMediaProject == 1     \* the project created when the store is opened
OtherProject == 2           \* the first project made with create_project

Times == 0..MaxTime
Apps == {"App1", "App2"}
Titles == {"T1"}
Projects == {SocialMediaProject}
ConcTimes == 0..MaxConcTime
ConcApps == {"App1"}
Threads == {"tracker", "main"}

Min(a, b) == IF a <= b THEN a ELSE b
Max(a, b) == IF a >= b THEN a ELSE b

VARIABLES
    store,       \* rows of table activities, as the connection sees them
    committed,   \* rows of table activities in the database file
    nextId,      \* next AUTOINCREMENT id of table activities
    last,        \* the last completed call: name, arguments, return value
    before       \* `store` when the last call began

storeVars == <<store, committed, nextId, last, before>>

VARIABLES
    lock,        \* holder of Database._write_lock, or "none"
    pc,          \* where each thread is inside the store operation it runs
    call,        \* the arguments of the operation each thread runs
    fetched,     \* rows of `overlapping` each thread has still to go through
    readRows,    \* rows returned by the get_activities call of a thread
    readFrom,    \* the store before and after the save in flight at that read
    serial,      \* the table, had every locked operation run in one piece
    serialNext,  \* the AUTOINCREMENT counter of that run
    tx           \* the table before and after the operation holding the lock

concVars == <<lock, pc, call, fetched, readRows, readFrom, serial,
              serialNext, tx>>

VARIABLES
    merge_gap,              \* TimelineWidget.merge_gap
    min_activity_duration,  \* TimelineWidget.min_activity_duration
    project_merge_gap,      \* TimelineWidget.project_merge_gap
    raw,                    \* the list handed to _merge_activities
    activities,             \* TimelineWidget.activities, the merged blocks
    remerged,               \* _merge_activities applied to those blocks
    mpc,                    \* "raw", "merged", "remerged" or "assigned"
    assigned_block          \* the block last assigned, and the lists then

mergeVars == <<merge_gap, min_activity_duration, project_merge_gap, raw,
               activities, remerged, mpc,
              assigned_block>>

VARIABLES
    history,                \* what database.get_activities returns to the
                            \* assigner, in the order returned
    app_project_map,        \* SmartProjectAssigner.app_project_map
    keyword_project_map,    \* SmartProjectAssigner.keyword_project_map
    learned,                \* learn_from_history calls made so far: 0, 1, ..
    learn_raised,           \* the last learn_from_history raised
                            \* ZeroDivisionError
    asked,                  \* the last call on the assigner: [op, activity,
                            \* project_id], NoQuery after a change of the
                            \* history
    answer                  \* what a query returned

assignerVars == <<history, app_project_map, keyword_project_map, learned,
                  learn_raised, asked, answer>>

\* =====================================================================
\*                          Activity store
\* =====================================================================

\* A row of table activities (the columns the operations read or write).
Row(id, timestamp, app_name, window_title, duration, project_id, is_idle) ==
    [id |-> id, timestamp |-> timestamp, app_name |-> app_name,
     window_title |-> window_title, duration |-> duration,
     project_id |-> project_id, is_idle |-> is_idle]

\* idx_unique_activity: UNIQUE (timestamp, app_name, window_title, duration)
UniqueKey(r) == <<r.timestamp, r.app_name, r.window_title, r.duration>>

\* datetime(timestamp, '+' || duration || ' seconds') > ?
\* For a negative duration the modifier reads '+-5 seconds', which sqlite
\* rejects: datetime() is NULL and the comparison is not true.
EndsAfter(E, start_time) ==
    /\ E.duration >= 0
    /\ E.timestamp + E.duration > start_time

Overlapping_StartsBefore(S, start_time, end_time) ==
    {[id |-> E.id, timestamp |-> E.timestamp, duration |-> E.duration] :
        E \in {F \in S : F.timestamp < start_time /\ EndsAfter(F, start_time)}}

Overlapping_UpToEnd(S, start_time, end_time) ==
    {[id |-> E.id, timestamp |-> E.timestamp, duration |-> E.duration] :
        E \in {F \in S : F.timestamp <= end_time /\ EndsAfter(F, start_time)}}

\* SELECT id, timestamp, duration FROM activities
\*  WHERE timestamp < end_time AND datetime(timestamp, ...) > start_time
Overlapping(S, start_time, end_time) ==
    {[id |-> E.id, timestamp |-> E.timestamp, duration |-> E.duration] :
        E \in {F \in S : F.timestamp < end_time /\ EndsAfter(F, start_time)}}

\* UPDATE activities SET duration = ? WHERE id = ?
UpdateDuration(S, id, d) ==
    {IF r.id = id THEN [r EXCEPT !.duration = d] ELSE r : r \in S}

\* DELETE FROM activities WHERE id = ?
DeleteById(S, id) == {r \in S : r.id # id}

\* The UPDATE raises IntegrityError when the shortened row would repeat the
\* unique key of another row.
UpdateCollides(S, id, d) ==
    \E r \in S, q \in S :
        /\ r.id = id
        /\ q.id # id
        /\ UniqueKey(q) = UniqueKey([r EXCEPT !.duration = d])

\* new_duration = int((start_time - overlap_start).total_seconds())
NewDuration_OffByOne(start_time, overlap_start) == start_time - overlap_start - 1

NewDuration(start_time, overlap_start) == start_time - overlap_start

\* The loop over the fetched rows (in rowid order): shorten each so that it
\* ends at start_time, or delete it when nothing of it would be left.
RECURSIVE ShortenOverlaps(_, _, _)
ShortenOverlaps(S, overlapping, start_time) ==
    IF overlapping = {} THEN [rows |-> S, ok |-> TRUE]
    ELSE LET overlap == CHOOSE o \in overlapping :
                            \A p \in overlapping : o.id <= p.id
             new_duration == NewDuration(start_time, overlap.timestamp)
         IN  IF new_duration > 0
             THEN IF UpdateCollides(S, overlap.id, new_duration)
                  THEN [rows |-> S, ok |-> FALSE]
                  ELSE ShortenOverlaps(
                           UpdateDuration(S, overlap.id, new_duration),
                           overlapping \ {overlap}, start_time)
             ELSE ShortenOverlaps(DeleteById(S, overlap.id),
                                  overlapping \ {overlap}, start_time)

\* INSERT INTO activities (...) collides with idx_unique_activity
InsertCollides(S, new) == \E r \in S : UniqueKey(r) = UniqueKey(new)

\* The whole of save_activity on the rows S with AUTOINCREMENT counter nid:
\* the rows afterwards, the return value and whether commit() was reached.
SaveOutcome(S, nid, app_name, window_title, start_time, end_time, is_idle) ==
    LET duration == end_time - start_time
        overlapping == Overlapping(S, start_time, end_time)
        sh == ShortenOverlaps(S, overlapping, start_time)
        new == Row(nid, start_time, app_name, window_title, duration,
                   None, is_idle)
    IN  IF ~sh.ok \/ InsertCollides(sh.rows, new)
        THEN [rows |-> sh.rows, ret |-> 0, commit |-> FALSE]
        ELSE [rows |-> sh.rows \cup {new}, ret |-> nid, commit |-> TRUE]

Call(op, app_name, window_title, start_time, end_time, ret) ==
    [op |-> op, app_name |-> app_name, window_title |-> window_title,
     start_time |-> start_time, end_time |-> end_time, ret |-> ret]

NoCall == Call("none", "", "", 0, 0, 0)

StoreInit ==
    /\ store = {}
    /\ committed = {}
    /\ nextId = 1
    /\ last = NoCall
    /\ before = {}

\* Database.save_activity, run to completion.
save_activity(app_name, window_title, start_time, end_time, is_idle) ==
    /\ nextId <= MaxId
    /\ LET out == SaveOutcome(store, nextId, app_name, window_title,
                              start_time, end_time, is_idle)
       IN  /\ store' = out.rows
           /\ committed' = IF out.commit THEN out.rows ELSE committed
           /\ nextId' = IF out.commit THEN nextId + 1 ELSE nextId
           /\ last' = Call("save_activity", app_name, window_title,
                           start_time, end_time, out.ret)
    /\ before' = store

\* =====================================================================
\*        The store operations, statement by statement, per thread
\* =====================================================================

NoTx == [before |-> {}, after |-> {}]

ConcIdle ==
    /\ lock = "none"
    /\ pc = [t \in Threads |-> "idle"]
    /\ call = [t \in Threads |-> NoCall]
    /\ fetched = [t \in Threads |-> {}]
    /\ readRows = {}
    /\ readFrom = {}
    /\ serial = {}
    /\ serialNext = 1
    /\ tx = NoTx

\* `with self._write_lock:` without the lock being taken into account
CanAcquire_NoLock(t) == TRUE

\* `with self._write_lock:` blocks until no thread holds the lock
CanAcquire(t) == lock = "none"

\* __exit__ of `with self._write_lock:`
Release(t) == lock' = "none"

\* save_activity: duration computed, lock acquired, cursor opened.
SaveBegin(t, app_name, window_title, start_time, end_time) ==
    /\ pc[t] = "idle"
    /\ nextId <= MaxConcId
    /\ CanAcquire(t)
    /\ lock' = t
    /\ pc' = [pc EXCEPT ![t] = "select"]
    /\ call' = [call EXCEPT ![t] = Call("save_activity", app_name,
                                  window_title, start_time, end_time, 0)]
    /\ LET out == SaveOutcome(serial, serialNext, app_name, window_title,
                              start_time, end_time, FALSE)
       IN  /\ serial' = out.rows
           /\ serialNext' = IF out.commit THEN serialNext + 1 ELSE serialNext
    /\ tx' = [before |-> store,
              after |-> SaveOutcome(store, nextId, app_name, window_title,
                                    start_time, end_time, FALSE).rows]
    /\ UNCHANGED <<store, committed, nextId, fetched, readRows, readFrom>>

\* save_activity: the overlap query and fetchall().
SaveSelect(t) ==
    /\ pc[t] = "select"
    /\ fetched' = [fetched EXCEPT ![t] =
                      Overlapping(store, call[t].start_time, call[t].end_time)]
    /\ pc' = [pc EXCEPT ![t] = "shorten"]
    /\ UNCHANGED <<store, committed, nextId, lock, call, readRows, readFrom,
                   serial, serialNext, tx>>

\* save_activity: one turn of the loop over `overlapping`, or the INSERT
\* once the loop is done.  An IntegrityError leaves through the except
\* clause: 0 is returned and nothing is committed or rolled back.
SaveShorten(t) ==
    /\ pc[t] = "shorten"
    /\ fetched[t] # {}
    /\ LET overlap == CHOOSE o \in fetched[t] :
                          \A p \in fetched[t] : o.id <= p.id
           new_duration == NewDuration(call[t].start_time, overlap.timestamp)
       IN  IF new_duration > 0 /\ UpdateCollides(store, overlap.id, new_duration)
           THEN /\ pc' = [pc EXCEPT ![t] = "idle"]
                /\ fetched' = [fetched EXCEPT ![t] = {}]
                /\ Release(t)
                /\ UNCHANGED store
           ELSE /\ store' = IF new_duration > 0
                            THEN UpdateDuration(store, overlap.id, new_duration)
                            ELSE DeleteById(store, overlap.id)
                /\ fetched' = [fetched EXCEPT ![t] = fetched[t] \ {overlap}]
                /\ UNCHANGED <<pc, lock>>
    /\ UNCHANGED <<committed, nextId, call, readRows, readFrom, serial,
                   serialNext, tx>>

SaveInsert(t) ==
    /\ pc[t] = "shorten"
    /\ fetched[t] = {}
    /\ LET new == Row(nextId, call[t].start_time, call[t].app_name,
                      call[t].window_title,
                      call[t].end_time - call[t].start_time, None, FALSE)
       IN  IF InsertCollides(store, new)
           THEN /\ pc' = [pc EXCEPT ![t] = "idle"]
                /\ Release(t)
                /\ UNCHANGED <<store, nextId, call>>
           ELSE /\ store' = store \cup {new}
                /\ nextId' = nextId + 1
                /\ call' = [call EXCEPT ![t].ret = nextId]
                /\ pc' = [pc EXCEPT ![t] = "commit"]
                /\ UNCHANGED lock
    /\ UNCHANGED <<committed, fetched, readRows, readFrom, serial,
                   serialNext, tx>>

\* save_activity: commit(), close(), return the id, leave the lock.
SaveCommit(t) ==
    /\ pc[t] = "commit"
    /\ committed' = store
    /\ pc' = [pc EXCEPT ![t] = "idle"]
    /\ Release(t)
    /\ UNCHANGED <<store, nextId, call, fetched, readRows, readFrom, serial,
                   serialNext, tx>>

\* UPDATE activities SET project_id = ? WHERE id = ?
SetProject(S, activity_id, project_id) ==
    {IF r.id = activity_id THEN [r EXCEPT !.project_id = project_id] ELSE r :
        r \in S}

\* assign_activity_to_project: lock acquired and the UPDATE executed.
AssignBegin(t, activity_id, project_id) ==
    /\ pc[t] = "idle"
    /\ CanAcquire(t)
    /\ lock' = t
    /\ store' = SetProject(store, activity_id, project_id)
    /\ serial' = SetProject(serial, activity_id, project_id)
    /\ tx' = [before |-> store, after |-> store']
    /\ pc' = [pc EXCEPT ![t] = "assign_commit"]
    /\ call' = [call EXCEPT ![t] =
                   Call("assign_activity_to_project", "", "", 0, 0, 0)]
    /\ UNCHANGED <<committed, nextId, fetched, readRows, readFrom, serialNext>>

\* assign_activity_to_project: commit(), close(), leave the lock.
AssignCommit(t) ==
    /\ pc[t] = "assign_commit"
    /\ committed' = store
    /\ pc' = [pc EXCEPT ![t] = "idle"]
    /\ Release(t)
    /\ UNCHANGED <<store, nextId, call, fetched, readRows, readFrom, serial,
                   serialNext, tx>>

\* get_activities(): SELECT * FROM activities WHERE 1=1 on the shared
\* connection, without the lock; the rows are those the connection sees.
get_activities(t) ==
    /\ pc[t] = "idle"
    /\ readRows' = store
    /\ readFrom' = IF lock = "none" THEN {store} ELSE {tx.before, tx.after}
    /\ pc' = [pc EXCEPT ![t] = "read_done"]
    /\ call' = [call EXCEPT ![t] = Call("get_activities", "", "", 0, 0, 0)]
    /\ UNCHANGED <<store, committed, nextId, lock, fetched, serial,
                   serialNext, tx>>

\* The caller of get_activities has used the list and dropped it.
ReadReturn(t) ==
    /\ pc[t] = "read_done"
    /\ readRows' = {}
    /\ readFrom' = {}
    /\ pc' = [pc EXCEPT ![t] = "idle"]
    /\ UNCHANGED <<store, committed, nextId, lock, call, fetched, serial,
                   serialNext, tx>>

\* =====================================================================
\*                 Timeline merger (TimelineWidget)
\* =====================================================================

\* No block has been assigned.
NoBlock == [k |-> 0]

\* The widget while no list has been handed to it (the runs of the store
\* operations leave it like this).
MergeIdle ==
    /\ merge_gap = 0
    /\ min_activity_duration = 1
    /\ project_merge_gap = 0
    /\ raw = <<>>
    /\ activities = <<>>
    /\ remerged = <<>>
    /\ mpc = "off"
    /\ assigned_block = NoBlock

\* d with d['end_time'] = end_time
WithEndTime(d, end_time) ==
    [k \in DOMAIN d \cup {"end_time"} |->
        IF k = "end_time" THEN end_time ELSE d[k]]

FilterShort_Strict(acts, min_duration) ==
    SelectSeq(acts, LAMBDA act : act.duration > min_duration)

\* [act for act in activities if act['duration'] >= min_activity_duration]
RECURSIVE FilterShort(_, _)
FilterShort(acts, min_duration) ==
    IF acts = <<>> THEN <<>>
    ELSE IF Head(acts).duration >= min_duration
         THEN <<Head(acts)>> \o FilterShort(Tail(acts), min_duration)
         ELSE FilterShort(Tail(acts), min_duration)

\* Place x behind every element of the sorted list whose key is not larger.
RECURSIVE InsertSorted(_, _)
InsertSorted(sorted, x) ==
    IF sorted = <<>> THEN <<x>>
    ELSE IF Head(sorted).timestamp <= x.timestamp
         THEN <<Head(sorted)>> \o InsertSorted(Tail(sorted), x)
         ELSE <<x>> \o sorted

SortByTimestamp_Unsorted(acts) == acts

\* sorted(filtered, key=lambda x: x['timestamp']): ascending and stable
RECURSIVE SortByTimestamp(_)
SortByTimestamp(acts) ==
    IF acts = <<>> THEN <<>>
    ELSE InsertSorted(SortByTimestamp(SubSeq(acts, 1, Len(acts) - 1)),
                      acts[Len(acts)])

ShouldMerge_WiderGap(current, activity, gap, mg, pmg) ==
    /\ ~(current.is_idle \/ activity.is_idle)
    /\ current.app_name = activity.app_name
    /\ \/ gap <= mg
       \/ /\ current.project_id # None
          /\ current.project_id = activity.project_id
          /\ gap <= pmg

ShouldMerge_IgnoreIdle(current, activity, gap, mg, pmg) ==
    IF /\ current.project_id # None
       /\ activity.project_id # None
       /\ current.project_id = activity.project_id
       /\ current.app_name = activity.app_name
    THEN gap <= pmg
    ELSE current.app_name = activity.app_name /\ gap <= mg

\* The if / elif / elif chain that sets should_merge.
ShouldMerge(current, activity, gap, mg, pmg) ==
    IF current.is_idle \/ activity.is_idle THEN FALSE
    ELSE IF /\ current.project_id # None
            /\ activity.project_id # None
            /\ current.project_id = activity.project_id
            /\ current.app_name = activity.app_name
         THEN gap <= pmg
         ELSE IF current.app_name = activity.app_name
              THEN gap <= mg
              ELSE FALSE

Extend_KeepsTitle(current, activity, activity_end) ==
    [current EXCEPT
        !.end_time = activity_end,
        !.duration = activity_end - current.timestamp]

Extend_StaleDuration(current, activity, activity_end) ==
    [current EXCEPT
        !.end_time = activity_end,
        !.window_title = IF activity.window_title # ""
                         THEN activity.window_title ELSE @]

\* The `if should_merge:` branch: extend current to the end of activity.
Extend(current, activity, activity_end) ==
    [current EXCEPT
        !.end_time = activity_end,
        !.duration = activity_end - current.timestamp,
        !.window_title = IF activity.window_title # ""
                         THEN activity.window_title ELSE @]

RECURSIVE MergeLoop(_, _, _, _)
MergeLoop_ForgetsLast(current, rest, mg, pmg) ==
    IF rest = <<>> THEN <<>>
    ELSE LET activity == Head(rest)
             activity_end == activity.timestamp + activity.duration
             gap == activity.timestamp - current.end_time
         IN  IF ShouldMerge(current, activity, gap, mg, pmg)
             THEN MergeLoop(Extend(current, activity, activity_end),
                            Tail(rest), mg, pmg)
             ELSE <<current>> \o
                  MergeLoop(WithEndTime(activity, activity_end),
                            Tail(rest), mg, pmg)

\* The for loop once `current` is set: the blocks appended to `merged`,
\* the last `current` included.
MergeLoop(current, rest, mg, pmg) ==
    IF rest = <<>> THEN <<current>>
    ELSE LET activity == Head(rest)
             activity_end == activity.timestamp + activity.duration
             gap == activity.timestamp - current.end_time
         IN  IF ShouldMerge(current, activity, gap, mg, pmg)
             THEN MergeLoop(Extend(current, activity, activity_end),
                            Tail(rest), mg, pmg)
             ELSE <<current>> \o
                  MergeLoop(WithEndTime(activity, activity_end),
                            Tail(rest), mg, pmg)

\* TimelineWidget._merge_activities
MergeActivities(acts, min_duration, mg, pmg) ==
    IF acts = <<>> THEN <<>>
    ELSE LET filtered == FilterShort(acts, min_duration)
         IN  IF filtered = <<>> THEN <<>>
             ELSE LET sorted_activities == SortByTimestamp(filtered)
                      first == Head(sorted_activities)
                  IN  MergeLoop(
                          WithEndTime(first, first.timestamp + first.duration),
                          Tail(sorted_activities), mg, pmg)

\* The activity dictionaries a list may hold; the id is the position in
\* the list and the window title is told apart by it.
MergeActivity(id, timestamp, app_name, duration, project_id, is_idle) ==
    [id |-> id, timestamp |-> timestamp, app_name |-> app_name,
     window_title |-> <<"T1", "T2", "T3", "T4">>[id], duration |-> duration,
     project_id |-> project_id, is_idle |-> is_idle]

RawLists ==
    UNION {[1..n -> (0..MaxStart) \X Apps \X (1..MaxDuration)
                    \X (Projects \cup {None}) \X BOOLEAN] : n \in 0..MaxLen}

\* A widget constructed with thresholds from the environment, and the list
\* its first set_activities call is given.
MergeInit ==
    /\ merge_gap \in 0..MaxGap
    /\ min_activity_duration \in 1..MaxDuration
    /\ project_merge_gap \in 0..MaxGap
    /\ \E f \in RawLists :
          raw = [i \in DOMAIN f |->
                    MergeActivity(i, f[i][1], f[i][2], f[i][3], f[i][4],
                                  f[i][5])]
    /\ activities = <<>>
    /\ remerged = <<>>
    /\ mpc = "raw"
    /\ assigned_block = NoBlock

\* Lists of non-idle activities assigned to no project or to one of two.
ProjectLists ==
    UNION {[1..n -> (0..MaxStart) \X Apps \X (1..MaxDuration)
                    \X {None, SocialMediaProject, OtherProject} \X {FALSE}] :
           n \in 0..MaxLen}

\* As MergeInit, the list drawn from ProjectLists.
ProjectMergeInit ==
    /\ merge_gap \in 0..MaxGap
    /\ min_activity_duration \in 1..MaxDuration
    /\ project_merge_gap \in 0..MaxGap
    /\ \E f \in ProjectLists :
          raw = [i \in DOMAIN f |->
                    MergeActivity(i, f[i][1], f[i][2], f[i][3], f[i][4],
                                  f[i][5])]
    /\ activities = <<>>
    /\ remerged = <<>>
    /\ mpc = "raw"
    /\ assigned_block = NoBlock

\* set_activities: self.activities = self._merge_activities(filtered)
set_activities ==
    /\ mpc = "raw"
    /\ activities' = MergeActivities(raw, min_activity_duration, merge_gap,
                                     project_merge_gap)
    /\ mpc' = "merged"
    /\ UNCHANGED <<merge_gap, min_activity_duration, project_merge_gap, raw,
                   remerged, assigned_block>>

\* _merge_activities run again on the blocks it returned.
merge_again ==
    /\ mpc = "merged"
    /\ remerged' = MergeActivities(activities, min_activity_duration,
                                   merge_gap, project_merge_gap)
    /\ mpc' = "remerged"
    /\ UNCHANGED <<merge_gap, min_activity_duration, project_merge_gap, raw,
                   activities, assigned_block>>

\* The activity with an empty window title when it is not titled.
TitledActivity(id, timestamp, app_name, duration, project_id, titled) ==
    [MergeActivity(id, timestamp, app_name, duration, project_id, FALSE)
        EXCEPT !.window_title = IF titled THEN @ ELSE ""]

\* Lists of non-idle activities, some with an empty title, some assigned.
TitledLists ==
    UNION {[1..n -> (0..MaxStart) \X Apps \X (1..MaxDuration)
                    \X {None, SocialMediaProject} \X BOOLEAN] :
           n \in 0..MaxLen}

\* As MergeInit, the list (the stored activities of the day shown) drawn
\* from TitledLists.
TitledMergeInit ==
    /\ merge_gap \in 0..MaxGap
    /\ min_activity_duration \in 1..MaxDuration
    /\ project_merge_gap = MaxGap
    /\ \E f \in TitledLists :
          raw = [i \in DOMAIN f |->
                    TitledActivity(i, f[i][1], f[i][2], f[i][3], f[i][4],
                                   f[i][5])]
    /\ activities = <<>>
    /\ remerged = <<>>
    /\ mpc = "raw"
    /\ assigned_block = NoBlock

\* WHERE timestamp >= ? AND timestamp <= ? AND app_name = ?
InTimerange(a, start, end, app_name) ==
    /\ a.timestamp >= start
    /\ a.timestamp <= end
    /\ a.app_name = app_name

\* Database.assign_activities_by_timerange on the stored activities.
AssignByTimerange(acts, start, end, app_name, project_id) ==
    [i \in DOMAIN acts |->
        IF InTimerange(acts[i], start, end, app_name)
        THEN [acts[i] EXCEPT !.project_id = project_id]
        ELSE acts[i]]

\* TimelineWidget.assign_to_project on block k, and the load_timeline that
\* follows: the day is read and merged again.
assign_to_project(k, project_id) ==
    /\ mpc = "merged"
    /\ k \in DOMAIN activities
    /\ LET activity == activities[k]
           stored == AssignByTimerange(raw, activity.timestamp,
                                       activity.end_time, activity.app_name,
                                       project_id)
       IN  /\ raw' = stored
           /\ activities' = MergeActivities(stored, min_activity_duration,
                                            merge_gap, project_merge_gap)
           /\ assigned_block' = [k |-> k, project_id |-> project_id,
                                 raw |-> raw, activities |-> activities]
    /\ mpc' = "assigned"
    /\ UNCHANGED <<merge_gap, min_activity_duration, project_merge_gap,
                   remerged>>

\* =====================================================================
\*              Smart project assigner (SmartProjectAssigner)
\* =====================================================================

\* A window title is the sequence of its words (maximal runs of \w
\* characters).  str.lower() on the words that occur in the model.
Lower(word) == IF word = "Invoice" THEN "invoice" ELSE word

\* re.findall(r"\b\w{4,}\b", window_title.lower())
Keywords(window_title) ==
    SelectSeq([i \in DOMAIN window_title |-> Lower(window_title[i])],
              LAMBDA word : Len(word) >= 4)

\* The activity dictionaries the assigner reads.
HistoryActivity(id, app_name, window_title, project_id, duration) ==
    [id |-> id, app_name |-> app_name, window_title |-> window_title,
     project_id |-> project_id, duration |-> duration]

\* assigned = [a for a in activities if a.get("project_id")]
Assigned(acts) == SelectSeq(acts, LAMBDA a : a.project_id # None)

\* The keys of a dict in insertion order: the distinct elements of a
\* sequence, in the order of their first occurrence.
RECURSIVE InsertionOrder(_)
InsertionOrder(seq) ==
    IF seq = <<>> THEN <<>>
    ELSE LET front == InsertionOrder(SubSeq(seq, 1, Len(seq) - 1))
             x == seq[Len(seq)]
         IN  IF \E i \in DOMAIN front : front[i] = x
             THEN front ELSE Append(front, x)

\* Number of times word occurs in the sequence.
RECURSIVE Occurrences(_, _)
Occurrences(seq, word) ==
    IF seq = <<>> THEN 0
    ELSE (IF Head(seq) = word THEN 1 ELSE 0) + Occurrences(Tail(seq), word)

RECURSIVE app_projects(_, _, _)
app_projects_CountsActivities(assigned, app_name, project_id) ==
    IF assigned = <<>> THEN 0
    ELSE (IF /\ Head(assigned).app_name = app_name
             /\ Head(assigned).project_id = project_id
          THEN 1 ELSE 0)
         + app_projects(Tail(assigned), app_name, project_id)

\* app_projects[app_name][project_id] after the first loop over assigned.
app_projects(assigned, app_name, project_id) ==
    IF assigned = <<>> THEN 0
    ELSE (IF /\ Head(assigned).app_name = app_name
             /\ Head(assigned).project_id = project_id
          THEN Head(assigned).duration ELSE 0)
         + app_projects(Tail(assigned), app_name, project_id)

\* keyword_projects[keyword][project_id] after the second loop: the
\* duration is added once per occurrence of the keyword in the title.
RECURSIVE keyword_projects(_, _, _)
keyword_projects(assigned, keyword, project_id) ==
    IF assigned = <<>> THEN 0
    ELSE (IF Head(assigned).project_id = project_id
          THEN Head(assigned).duration
               * Occurrences(Keywords(Head(assigned).window_title), keyword)
          ELSE 0)
         + keyword_projects(Tail(assigned), keyword, project_id)

\* max(d.items(), key=lambda x: x[1])[0] for a dict with the given keys in
\* insertion order and values value[key]: the first key of maximal value.
RECURSIVE FirstMax(_, _)
FirstMax(keys, value) ==
    IF Len(keys) = 1 THEN keys[1]
    ELSE LET best == FirstMax(SubSeq(keys, 1, Len(keys) - 1), value)
             x == keys[Len(keys)]
         IN  IF value[x] > value[best] THEN x ELSE best

\* sum(d.values())
RECURSIVE SumValues(_, _)
SumValues(keys, value) ==
    IF keys = <<>> THEN 0
    ELSE value[Head(keys)] + SumValues(Tail(keys), value)

\* The keys of app_projects[app_name], in insertion order.
AppProjectKeys(assigned, app_name) ==
    InsertionOrder(
        [i \in DOMAIN SelectSeq(assigned, LAMBDA a : a.app_name = app_name)
            |-> SelectSeq(assigned, LAMBDA a : a.app_name = app_name)[i]
                    .project_id])

\* The keys of keyword_projects[keyword], in insertion order.
KeywordProjectKeys(assigned, keyword) ==
    LET with == SelectSeq(assigned,
                   LAMBDA a : Occurrences(Keywords(a.window_title), keyword) > 0)
    IN  InsertionOrder([i \in DOMAIN with |-> with[i].project_id])

\* All keywords of the assigned activities, activity by activity.
RECURSIVE AllKeywords(_)
AllKeywords(assigned) ==
    IF assigned = <<>> THEN <<>>
    ELSE Keywords(Head(assigned).window_title) \o AllKeywords(Tail(assigned))

\* The first loop pair of learn_from_history: app_project_map afterwards.
\* Entries of apps that are not among the assigned activities stay.
LearnApps(map, assigned) ==
    LET seen == {assigned[i].app_name : i \in DOMAIN assigned}
    IN  [app_name \in DOMAIN map \cup seen |->
            IF app_name \in seen
            THEN LET keys == AppProjectKeys(assigned, app_name)
                 IN  FirstMax(keys,
                         [p \in {keys[i] : i \in DOMAIN keys} |->
                             app_projects(assigned, app_name, p)])
            ELSE map[app_name]]

\* The loop over keyword_projects.items(), from the given keyword of the
\* insertion order on: the map afterwards, and whether the division
\* best_project[1] / total_time raised ZeroDivisionError (the loop ends
\* there).  best / total > 0.6 is 5 * best > 3 * total for total > 0.
RECURSIVE LearnKeywords(_, _, _)
LearnKeywords(map, keywords, assigned) ==
    IF keywords = <<>> THEN [map |-> map, raised |-> FALSE]
    ELSE LET keyword == Head(keywords)
             keys == KeywordProjectKeys(assigned, keyword)
             project_durations ==
                 [p \in {keys[i] : i \in DOMAIN keys} |->
                     keyword_projects(assigned, keyword, p)]
             best_project == FirstMax(keys, project_durations)
             total_time == SumValues(keys, project_durations)
         IN  IF total_time = 0 THEN [map |-> map, raised |-> TRUE]
             ELSE IF 5 * project_durations[best_project] > 3 * total_time
                  THEN LearnKeywords(
                           [k \in DOMAIN map \cup {keyword} |->
                               IF k = keyword THEN best_project ELSE map[k]],
                           Tail(keywords), assigned)
                  ELSE LearnKeywords(map, Tail(keywords), assigned)

SuggestProject_KeywordsFirst(app_map, keyword_map, activity) ==
    LET keywords == Keywords(activity.window_title)
        matched == SelectSeq(keywords,
                             LAMBDA k : k \in DOMAIN keyword_map)
        voted == [i \in DOMAIN matched |-> keyword_map[matched[i]]]
        keys == InsertionOrder(voted)
        project_scores == [p \in {keys[i] : i \in DOMAIN keys} |->
                              Occurrences(voted, p)]
    IN  IF keys # <<>> THEN FirstMax(keys, project_scores)
        ELSE IF activity.app_name \in DOMAIN app_map
             THEN app_map[activity.app_name] ELSE None

\* SmartProjectAssigner.suggest_project, on the given maps.
SuggestProject(app_map, keyword_map, activity) ==
    IF activity.app_name \in DOMAIN app_map
    THEN app_map[activity.app_name]
    ELSE LET keywords == Keywords(activity.window_title)
             matched == SelectSeq(keywords,
                                  LAMBDA k : k \in DOMAIN keyword_map)
             voted == [i \in DOMAIN matched |-> keyword_map[matched[i]]]
             keys == InsertionOrder(voted)
             project_scores == [p \in {keys[i] : i \in DOMAIN keys} |->
                                   Occurrences(voted, p)]
         IN  IF keys = <<>> THEN None ELSE FirstMax(keys, project_scores)

Confidence_AnyProject(app_map, keyword_map, activity, project_id) ==
    LET keywords == Keywords(activity.window_title)
        app_confidence ==
            IF /\ activity.app_name \in DOMAIN app_map
               /\ app_map[activity.app_name] = project_id
            THEN 60 ELSE 0
        matching_keywords ==
            Cardinality({i \in DOMAIN keywords :
                            keywords[i] \in DOMAIN keyword_map})
    IN  app_confidence
        + (IF keywords # <<>>
           THEN (40 * matching_keywords) \div Len(keywords) ELSE 0)

\* SmartProjectAssigner.get_confidence in hundredths, rounded down: 0.6 is
\* 60, 0.4 * matching_keywords / len(keywords) is 40 * m \div n.
Confidence(app_map, keyword_map, activity, project_id) ==
    LET keywords == Keywords(activity.window_title)
        app_confidence ==
            IF /\ activity.app_name \in DOMAIN app_map
               /\ app_map[activity.app_name] = project_id
            THEN 60 ELSE 0
        matching_keywords ==
            Cardinality({i \in DOMAIN keywords :
                            /\ keywords[i] \in DOMAIN keyword_map
                            /\ keyword_map[keywords[i]] = project_id})
        keyword_confidence ==
            IF keywords # <<>>
            THEN (40 * matching_keywords) \div Len(keywords) ELSE 0
    IN  Min(app_confidence + keyword_confidence, 100)

EmptyMap == [k \in {} |-> None]

NoQuery == [op |-> "none"]

\* App and window title of the activities of the history.
HistoryKinds ==
    {<<"App1", <<"Invoice", "fix">>>>,
     <<"App1", <<"invoice", "report">>>>,
     <<"App2", <<"report", "report">>>>,
     <<"App2", <<"fix">>>>}

AllProjects == {SocialMediaProject, OtherProject}

HistoryLists(max_len) ==
    UNION {[1..n -> HistoryKinds \X (AllProjects \cup {None})
                    \X (0..MaxLearnDuration)] : n \in 0..max_len}

HistoryFrom(f) ==
    [i \in DOMAIN f |-> HistoryActivity(i, f[i][1][1], f[i][1][2], f[i][2],
                                        f[i][3])]

\* The unassigned activities suggestions are asked for; "App3" is an app
\* that no activity of the history has.
QueryActivities ==
    {HistoryActivity(0, app_name, window_title, None, 1) :
        app_name \in {"App1", "App2", "App3"},
        window_title \in {<<"fix">>, <<"invoice", "report">>,
                          <<"Invoice", "report", "report">>}}

\* No assigner has been constructed (the runs of the other components).
AssignerIdle ==
    /\ history = <<>>
    /\ app_project_map = EmptyMap
    /\ keyword_project_map = EmptyMap
    /\ learned = 0
    /\ learn_raised = FALSE
    /\ asked = NoQuery
    /\ answer = None

\* SmartProjectAssigner.__init__ over a store with some history.
AssignerInit ==
    /\ \E f \in HistoryLists(MaxHistory) : history = HistoryFrom(f)
    /\ app_project_map = EmptyMap
    /\ keyword_project_map = EmptyMap
    /\ learned = 0
    /\ learn_raised = FALSE
    /\ asked = NoQuery
    /\ answer = None

\* The durations of the histories of the bulk operations.
BulkDurations == {0, 2}

BulkLists ==
    UNION {[1..n -> HistoryKinds \X (AllProjects \cup {None})
                    \X BulkDurations] : n \in 0..MaxHistory}

\* SmartProjectAssigner.__init__ before a bulk operation.
BulkInit ==
    /\ \E f \in BulkLists : history = HistoryFrom(f)
    /\ app_project_map = EmptyMap
    /\ keyword_project_map = EmptyMap
    /\ learned = 0
    /\ learn_raised = FALSE
    /\ asked = NoQuery
    /\ answer = None

\* SmartProjectAssigner.__init__ over a shorter history.
RelearnInit ==
    /\ \E f \in HistoryLists(MaxRelearnHistory) : history = HistoryFrom(f)
    /\ app_project_map = EmptyMap
    /\ keyword_project_map = EmptyMap
    /\ learned = 0
    /\ learn_raised = FALSE
    /\ asked = NoQuery
    /\ answer = None

\* Database.assign_activity_to_project on the i-th activity of the
\* history; project_id None removes the assignment.
assign_activity_to_project(i, project_id) ==
    /\ history' = [history EXCEPT ![i].project_id = project_id]
    /\ asked' = NoQuery
    /\ answer' = None
    /\ UNCHANGED <<app_project_map, keyword_project_map, learned,
                   learn_raised>>

\* Database.delete_activities_by_timerange over the i-th activity alone.
delete_activities_by_timerange(i) ==
    /\ history' = SubSeq(history, 1, i - 1)
                   \o SubSeq(history, i + 1, Len(history))
    /\ asked' = NoQuery
    /\ answer' = None
    /\ UNCHANGED <<app_project_map, keyword_project_map, learned,
                   learn_raised>>

\* SmartProjectAssigner.learn_from_history
learn_from_history ==
    LET assigned == Assigned(history)
        keywords == LearnKeywords(keyword_project_map,
                                  InsertionOrder(AllKeywords(assigned)),
                                  assigned)
    IN  /\ app_project_map' = LearnApps(app_project_map, assigned)
        /\ keyword_project_map' = keywords.map
        /\ learn_raised' = keywords.raised
        /\ learned' = learned + 1
        /\ asked' = [op |-> "learn_from_history"]
        /\ answer' = None
        /\ UNCHANGED history

\* SmartProjectAssigner.suggest_project
suggest_project(activity) ==
    /\ asked' = [op |-> "suggest_project", activity |-> activity,
                 project_id |-> None]
    /\ answer' = SuggestProject(app_project_map, keyword_project_map,
                                activity)
    /\ UNCHANGED <<history, app_project_map, keyword_project_map, learned,
                   learn_raised>>

\* SmartProjectAssigner.get_confidence
get_confidence(activity, project_id) ==
    /\ asked' = [op |-> "get_confidence", activity |-> activity,
                 project_id |-> project_id]
    /\ answer' = Confidence(app_project_map, keyword_project_map, activity,
                            project_id)
    /\ UNCHANGED <<history, app_project_map, keyword_project_map, learned,
                   learn_raised>>

\* ------------------------------------------------- the bulk operations

\* min_confidence in hundredths: the default 0.5, and 0.7.
MinConfidences == {50, 70}

\* activities = get_activities(start_date, end_date): the activities of the
\* history (newest first) from position lo to position hi.
InRange(lo, hi) == SubSeq(history, lo, hi)

\* unassigned = [a for a in activities if not a.get("project_id")]
Unassigned(acts) == SelectSeq(acts, LAMBDA a : a.project_id = None)

NoStats == [assignments |-> <<>>, skipped_low_confidence |-> 0]

AutoAssignLoop_Eager(unassigned, app_map, keyword_map, min_confidence, stats) ==
    [assignments |->
        SelectSeq([i \in DOMAIN unassigned |->
                      [activity_id |-> unassigned[i].id,
                       project_id |-> SuggestProject(app_map, keyword_map,
                                                     unassigned[i])]],
                  LAMBDA x : x.project_id # None),
     skipped_low_confidence |-> 0]

\* The loop `for activity in unassigned` of auto_assign_unassigned: the
\* assignments made (or, in a dry run, listed) and the number skipped.
RECURSIVE AutoAssignLoop(_, _, _, _, _)
AutoAssignLoop(unassigned, app_map, keyword_map, min_confidence, stats) ==
    IF unassigned = <<>> THEN stats
    ELSE LET activity == Head(unassigned)
             suggested_project == SuggestProject(app_map, keyword_map,
                                                 activity)
             confidence == Confidence(app_map, keyword_map, activity,
                                      suggested_project)
             next ==
                 IF suggested_project = None THEN stats
                 ELSE IF confidence >= min_confidence
                      THEN [stats EXCEPT !.assignments =
                               Append(@, [activity_id |-> activity.id,
                                          project_id |-> suggested_project])]
                      ELSE [stats EXCEPT !.skipped_low_confidence = @ + 1]
         IN  AutoAssignLoop(Tail(unassigned), app_map, keyword_map,
                            min_confidence, next)

\* database.assign_activity_to_project(activity["id"], suggested_project)
\* for each assignment.
RECURSIVE WriteAssignments(_, _)
WriteAssignments(acts, assignments) ==
    IF assignments = <<>> THEN acts
    ELSE WriteAssignments(
             [i \in DOMAIN acts |->
                 IF acts[i].id = Head(assignments).activity_id
                 THEN [acts[i] EXCEPT
                          !.project_id = Head(assignments).project_id]
                 ELSE acts[i]],
             Tail(assignments))

\* The ranges of a bulk operation: positions lo..hi of the history.
RangeStarts == 1..2
RangeEnds == {Len(history) - 1, Len(history)}

\* SmartProjectAssigner.auto_assign_unassigned(start_date, end_date,
\* min_confidence, dry_run), the range being the positions lo..hi.  A
\* ZeroDivisionError of learn_from_history ends the call.
auto_assign_unassigned ==
    LET assigned == Assigned(history)
        keywords == LearnKeywords(keyword_project_map,
                                  InsertionOrder(AllKeywords(assigned)),
                                  assigned)
        app_map == LearnApps(app_project_map, assigned)
    IN  /\ app_project_map' = app_map
        /\ keyword_project_map' = keywords.map
        /\ learn_raised' = keywords.raised
        /\ learned' = learned + 1
        /\ \E lo \in RangeStarts, hi \in RangeEnds,
              min_confidence \in MinConfidences, dry_run \in BOOLEAN :
              LET unassigned == Unassigned(InRange(lo, hi))
                  stats == IF keywords.raised THEN NoStats
                           ELSE AutoAssignLoop(unassigned, app_map,
                                               keywords.map, min_confidence,
                                               NoStats)
              IN  /\ asked' = [op |-> "auto_assign_unassigned",
                               lo |-> lo, hi |-> hi,
                               min_confidence |-> min_confidence,
                               dry_run |-> dry_run, before |-> history]
                  /\ IF keywords.raised
                     THEN /\ history' = history
                          /\ answer' = [raised |-> TRUE]
                     ELSE /\ history' =
                                IF dry_run THEN history
                                ELSE WriteAssignments(history,
                                                      stats.assignments)
                          /\ answer' =
                                [raised |-> FALSE,
                                 total_unassigned |-> Len(unassigned),
                                 assigned |-> Len(stats.assignments),
                                 skipped_low_confidence |->
                                     stats.skipped_low_confidence,
                                 assignments |-> stats.assignments]

\* unassigned[:limit]
Take(acts, limit) == SubSeq(acts, 1, Min(limit, Len(acts)))

\* The loop of get_suggestions_for_review: one suggestion for each of the
\* activities for which suggest_project returns a project.
RECURSIVE ReviewLoop(_, _, _)
ReviewLoop(unassigned, app_map, keyword_map) ==
    IF unassigned = <<>> THEN <<>>
    ELSE LET activity == Head(unassigned)
             suggested_project == SuggestProject(app_map, keyword_map,
                                                 activity)
             rest == ReviewLoop(Tail(unassigned), app_map, keyword_map)
         IN  IF suggested_project = None THEN rest
             ELSE <<[activity |-> activity,
                     suggested_project_id |-> suggested_project,
                     confidence |-> Confidence(app_map, keyword_map,
                                               activity,
                                               suggested_project)]>>
                  \o rest

\* suggestions.sort(key=lambda x: x["confidence"], reverse=True): a stable
\* sort, equal confidences keep their order.
RECURSIVE SortByConfidence(_)
SortByConfidence(suggestions) ==
    IF suggestions = <<>> THEN <<>>
    ELSE LET x == suggestions[Len(suggestions)]
             sorted == SortByConfidence(SubSeq(suggestions, 1,
                                               Len(suggestions) - 1))
             higher == SelectSeq(sorted,
                                 LAMBDA y : y.confidence >= x.confidence)
             lower == SelectSeq(sorted,
                                LAMBDA y : y.confidence < x.confidence)
         IN  higher \o <<x>> \o lower

\* SmartProjectAssigner.get_suggestions_for_review(start_date, end_date,
\* limit, min_duration), the range being the positions lo..hi.
get_suggestions_for_review ==
    LET assigned == Assigned(history)
        keywords == LearnKeywords(keyword_project_map,
                                  InsertionOrder(AllKeywords(assigned)),
                                  assigned)
        app_map == LearnApps(app_project_map, assigned)
    IN  /\ app_project_map' = app_map
        /\ keyword_project_map' = keywords.map
        /\ learn_raised' = keywords.raised
        /\ learned' = learned + 1
        /\ history' = history
        /\ \E lo \in RangeStarts, limit \in 1..MaxLimit,
              min_duration \in 1..MaxMinDuration :
              LET unassigned ==
                      SelectSeq(InRange(lo, Len(history)),
                                LAMBDA a : /\ a.project_id = None
                                           /\ a.duration >= min_duration)
              IN  /\ asked' = [op |-> "get_suggestions_for_review",
                               lo |-> lo, hi |-> Len(history),
                               limit |-> limit,
                               min_duration |-> min_duration,
                               before |-> history]
                  /\ answer' =
                        IF keywords.raised THEN [raised |-> TRUE]
                        ELSE [raised |-> FALSE,
                              suggestions |->
                                  SortByConfidence(
                                      ReviewLoop(Take(unassigned, limit),
                                                 app_map, keywords.map))]

\* ------------------------------------------------------- the tracker

VARIABLES
    is_running,        \* ActivityTracker.is_running
    stop_event,        \* stop_event.is_set()
    current_activity,  \* _current_activity, None or a window
    start_time,        \* _start_time, None or a second of the clock
    tracker_thread,    \* tracker_thread, None or the thread last started
    loop_pc,           \* position of each tracking loop thread
    main_pc,           \* position of the thread calling start() and stop()
    now,               \* datetime.now(), in seconds
    polled,            \* what the last loop iteration read from the platform
    last_saved,        \* the last call of database.save_activity
    nsaves,            \* number of calls of database.save_activity
    ncalls,            \* number of start() and stop() calls
    last_call,         \* the last of them
    stop_returned,     \* when the last stop() returned, None before
    pauses             \* the intervals <<stop() returned, start() called>>

trackerVars == <<is_running, stop_event, current_activity, start_time,
                 tracker_thread, loop_pc, main_pc, now, polled, last_saved,
                 nsaves, ncalls, last_call, stop_returned, pauses>>


\* What get_active_window() returns after the ignore filter.
Windows == {[app_name |-> "App1", window_title |-> "T1"],
            [app_name |-> "App2", window_title |-> "T1"]}

\* get_active_window() returned None or the window is ignored; also the
\* value None of _current_activity.
NoWindow == [app_name |-> "", window_title |-> ""]

\* database.save_activity has not been called.
NoSave == [by |-> "none"]

LoopThreads == 1..MaxThreads

\* idle_threshold, scaled so that idle times lie below, at and above it.
idle_threshold == MaxIdle - 1

NoPoll == [window |-> NoWindow, idle_time |-> 0, is_audio_playing |-> FALSE]

\* No tracker has been constructed (the runs of the other components).
TrackerIdle ==
    /\ is_running = FALSE
    /\ stop_event = FALSE
    /\ current_activity = NoWindow
    /\ start_time = None
    /\ tracker_thread = None
    /\ loop_pc = [t \in LoopThreads |-> "dead"]
    /\ main_pc = "idle"
    /\ now = 1
    /\ polled = NoPoll
    /\ last_saved = NoSave
    /\ nsaves = 0
    /\ ncalls = 0
    /\ last_call = "none"
    /\ stop_returned = None
    /\ pauses = {}

\* ActivityTracker.__init__
TrackerInit == TrackerIdle

\* ActivityTracker._is_activity_different
IsActivityDifferent(current, new_activity) ==
    \/ current = NoWindow
    \/ new_activity.app_name # current.app_name
    \/ new_activity.window_title # current.window_title

\* _save_current_activity calls database.save_activity: there is a current
\* activity with a start time at least 1 second back.
Saves(current, started, is_idle) ==
    /\ current # NoWindow
    /\ started # None
    /\ now - started >= 1

\* The arguments of that call.
SaveCallOf(current, started, is_idle, by) ==
    [app_name |-> current.app_name, window_title |-> current.window_title,
     start_time |-> started, end_time |-> now, is_idle |-> is_idle,
     by |-> by]

\* ActivityTracker._save_current_activity(is_idle) by a thread.
SaveCurrentActivity(current, started, is_idle, by) ==
    IF Saves(current, started, is_idle)
    THEN /\ last_saved' = SaveCallOf(current, started, is_idle, by)
         /\ nsaves' = nsaves + 1
    ELSE UNCHANGED <<last_saved, nsaves>>

IsIdle_IgnoresAudio(idle_time, is_audio_playing) ==
    idle_time > idle_threshold

\* if idle_time > self.idle_threshold and not is_audio_playing
IsIdle(idle_time, is_audio_playing) ==
    idle_time > idle_threshold /\ ~is_audio_playing

\* ActivityTracker.start(): a no-op while running; otherwise the event is
\* cleared and a new thread begins at the loop test.
start ==
    /\ main_pc = "idle"
    /\ ncalls < MaxCalls
    /\ ncalls' = ncalls + 1
    /\ last_call' = "start"
    /\ IF is_running
       THEN UNCHANGED <<is_running, stop_event, tracker_thread, loop_pc,
                        pauses>>
       ELSE /\ \E t \in LoopThreads : loop_pc[t] = "dead"
            /\ LET t == CHOOSE u \in LoopThreads : loop_pc[u] = "dead"
               IN  /\ tracker_thread' = t
                   /\ loop_pc' = [loop_pc EXCEPT ![t] = "test"]
            /\ is_running' = TRUE
            /\ stop_event' = FALSE
            /\ pauses' = IF stop_returned = None THEN pauses
                         ELSE pauses \cup {<<stop_returned, now>>}
    /\ UNCHANGED <<current_activity, start_time, main_pc, now, polled,
                   last_saved, nsaves, stop_returned>>

\* ActivityTracker.stop(), up to the lock: a no-op when not running.
stop ==
    /\ main_pc = "idle"
    /\ ncalls < MaxCalls
    /\ ncalls' = ncalls + 1
    /\ last_call' = "stop"
    /\ IF ~is_running
       THEN UNCHANGED <<is_running, stop_event, main_pc>>
       ELSE /\ is_running' = FALSE
            /\ stop_event' = TRUE
            /\ main_pc' = "stop_save"
    /\ UNCHANGED <<current_activity, start_time, tracker_thread, loop_pc,
                   now, polled, last_saved, nsaves, stop_returned, pauses>>

\* stop(), with self._activity_lock: the pending activity is saved.
StopSave ==
    /\ main_pc = "stop_save"
    /\ SaveCurrentActivity(current_activity, start_time, FALSE, "stop")
    /\ main_pc' = "stop_join"
    /\ UNCHANGED <<is_running, stop_event, current_activity, start_time,
                   tracker_thread, loop_pc, now, polled, ncalls, last_call,
                   stop_returned, pauses>>

\* stop(): tracker_thread.join(timeout=5) returns, the thread having ended.
StopJoin ==
    /\ main_pc = "stop_join"
    /\ loop_pc[tracker_thread] = "dead"
    /\ main_pc' = "idle"
    /\ stop_returned' = now
    /\ UNCHANGED <<is_running, stop_event, current_activity, start_time,
                   tracker_thread, loop_pc, now, polled, last_saved, nsaves,
                   ncalls, last_call, pauses>>

\* stop(): tracker_thread.join(timeout=5) returns after the timeout, the
\* thread being still in time.sleep(poll_interval) or in an iteration.
StopJoinTimeout ==
    /\ main_pc = "stop_join"
    /\ loop_pc[tracker_thread] # "dead"
    /\ main_pc' = "idle"
    /\ stop_returned' = now
    /\ UNCHANGED <<is_running, stop_event, current_activity, start_time,
                   tracker_thread, loop_pc, now, polled, last_saved, nsaves,
                   ncalls, last_call, pauses>>

LoopTest_IgnoresEvent(t) ==
    /\ loop_pc[t] = "test"
    /\ loop_pc' = [loop_pc EXCEPT ![t] = "body"]
    /\ UNCHANGED <<is_running, stop_event, current_activity, start_time,
                   tracker_thread, main_pc, now, polled, last_saved, nsaves,
                   ncalls, last_call, stop_returned, pauses>>

\* _track_loop: while not self.stop_event.is_set()
LoopTest(t) ==
    /\ loop_pc[t] = "test"
    /\ loop_pc' = [loop_pc EXCEPT ![t] = IF stop_event THEN "dead"
                                         ELSE "body"]
    /\ UNCHANGED <<is_running, stop_event, current_activity, start_time,
                   tracker_thread, main_pc, now, polled, last_saved, nsaves,
                   ncalls, last_call, stop_returned, pauses>>

\* _track_loop: one iteration, the part under self._activity_lock taken as
\* one step; window NoWindow is no window or an ignored one.
LoopBody(t) ==
    /\ loop_pc[t] = "body"
    /\ \E window \in Windows \cup {NoWindow}, idle_time \in 0..MaxIdle,
          is_audio_playing \in BOOLEAN :
          LET changed == /\ window # NoWindow
                         /\ IsActivityDifferent(current_activity, window)
              current == IF changed THEN window ELSE current_activity
              started == IF changed THEN now ELSE start_time
              idle == /\ IsIdle(idle_time, is_audio_playing)
                      /\ current # NoWindow
          IN  /\ polled' = [window |-> window, idle_time |-> idle_time,
                            is_audio_playing |-> is_audio_playing]
              /\ IF changed /\ Saves(current_activity, start_time, FALSE)
                 THEN SaveCurrentActivity(current_activity, start_time,
                                          FALSE, "loop")
                 ELSE IF idle
                      THEN SaveCurrentActivity(current, started, TRUE,
                                               "loop")
                      ELSE UNCHANGED <<last_saved, nsaves>>
              /\ current_activity' = IF idle THEN NoWindow ELSE current
              /\ start_time' = IF idle THEN None ELSE started
    /\ loop_pc' = [loop_pc EXCEPT ![t] = "test"]
    /\ UNCHANGED <<is_running, stop_event, tracker_thread, main_pc, now,
                   ncalls, last_call, stop_returned, pauses>>

\* A second passes.
Tick ==
    /\ now < MaxClock
    /\ now' = now + 1
    /\ UNCHANGED <<is_running, stop_event, current_activity, start_time,
                   tracker_thread, loop_pc, main_pc, polled, last_saved,
                   nsaves, ncalls, last_call, stop_returned, pauses>>

\* ---------------------------------------------- the batch cleanup

VARIABLES
    cleanup_pc,   \* "off", "loop", "done" or "raised": where main() is
    cleaned       \* main(): the number of overlaps resolved

cleanupVars == <<cleanup_pc, cleaned>>

\* No cleanup is run (the runs of the other components).
CleanupIdle ==
    /\ cleanup_pc = "off"
    /\ cleaned = 0

\* The stored sets the cleanup starts from: up to MaxCleanupRows activities
\* of positive duration, ids in any order relative to the timestamps, no two
\* with the same unique key.
CleanupStores ==
    LET fs == UNION {[1..n -> (0..MaxStart) \X Apps \X (1..MaxDuration)
                              \X BOOLEAN] : n \in 0..MaxCleanupRows}
        rows(f) == {Row(i, f[i][1], f[i][2], "T1", f[i][3], None, f[i][4]) :
                       i \in DOMAIN f}
    IN  {rows(f) : f \in {g \in fs :
            \A i, j \in DOMAIN g :
                i # j => <<g[i][1], g[i][2], g[i][3]>>
                             # <<g[j][1], g[j][2], g[j][3]>>}}

\* main() after the confirmation, before the first find_overlaps.
CleanupInit ==
    /\ store \in CleanupStores
    /\ committed = store
    /\ nextId = MaxCleanupRows + 1
    /\ last = NoCall
    /\ before = {}
    /\ cleanup_pc = "loop"
    /\ cleaned = 0

\* find_overlaps: the pairs the query returns.
FindOverlaps(S) ==
    {<<a1, a2>> \in S \X S :
        /\ a1.id < a2.id
        /\ a1.timestamp < a2.timestamp
        /\ a1.timestamp + a1.duration > a2.timestamp}

\* ORDER BY a1.timestamp: the pairs that may come first.
FirstOverlaps(S) ==
    {o \in FindOverlaps(S) :
        \A q \in FindOverlaps(S) : o[1].timestamp <= q[1].timestamp}

\* resolve_overlap(conn, overlap, dry_run=False): the rows afterwards, and
\* whether an UPDATE raised IntegrityError.
ResolveOverlap(S, a1, a2) ==
    LET end1 == a1.timestamp + a1.duration
        end2 == a2.timestamp + a2.duration
        update(d) == IF UpdateCollides(S, a1.id, d)
                     THEN [rows |-> S, raised |-> TRUE]
                     ELSE [rows |-> UpdateDuration(S, a1.id, d),
                           raised |-> FALSE]
        delete(id) == [rows |-> DeleteById(S, id), raised |-> FALSE]
    IN  IF a1.is_idle /\ ~a2.is_idle THEN delete(a1.id)
        ELSE IF a2.is_idle /\ ~a1.is_idle THEN delete(a2.id)
        ELSE IF a1.timestamp <= a2.timestamp /\ end1 >= end2
             THEN delete(a2.id)
        ELSE IF a2.timestamp <= a1.timestamp /\ end2 >= end1
             THEN delete(a1.id)
        ELSE IF a1.app_name = a2.app_name
             THEN LET merged == update(Max(end1, end2) - a1.timestamp)
                  IN  IF merged.raised THEN merged
                      ELSE [rows |-> DeleteById(merged.rows, a2.id),
                            raised |-> FALSE]
        ELSE IF a2.timestamp - a1.timestamp > 0
             THEN update(a2.timestamp - a1.timestamp)
             ELSE delete(a1.id)

\* One iteration of `while overlaps:`: the first overlap is resolved and
\* committed; an IntegrityError ends main() with the step rolled back.
ResolveFirst ==
    /\ cleanup_pc = "loop"
    /\ \E o \in FirstOverlaps(store) :
          LET out == ResolveOverlap(store, o[1], o[2])
          IN  /\ store' = out.rows
              /\ committed' = out.rows
              /\ cleanup_pc' = IF out.raised THEN "raised" ELSE "loop"
              /\ cleaned' = IF out.raised THEN cleaned ELSE cleaned + 1
    /\ UNCHANGED <<nextId, last, before>>

\* find_overlaps returns no pair: the loop ends.
CleanupDone ==
    /\ cleanup_pc = "loop"
    /\ FindOverlaps(store) = {}
    /\ cleanup_pc' = "done"
    /\ UNCHANGED <<store, committed, nextId, last, before, cleaned>>

vars == <<storeVars, concVars, mergeVars, assignerVars, trackerVars,
          cleanupVars>>

Init ==
    /\ StoreInit /\ CleanupIdle /\ TrackerIdle
    /\ ConcIdle /\ MergeIdle /\ AssignerIdle

\* The tracker loop saves activities; the main thread saves (stop()), reads
\* and assigns.
ConcNext ==
    /\ \/ \E t \in Threads, a \in ConcApps, w \in Titles,
             s \in ConcTimes, e \in ConcTimes : SaveBegin(t, a, w, s, e)
       \/ \E t \in Threads : SaveSelect(t)
       \/ \E t \in Threads : SaveShorten(t)
       \/ \E t \in Threads : SaveInsert(t)
       \/ \E t \in Threads : SaveCommit(t)
       \/ \E r \in store, p \in Projects :
              r.project_id # p /\ AssignBegin("main", r.id, p)
       \/ AssignCommit("main")
       \/ get_activities("main")
       \/ ReadReturn("main")
    /\ UNCHANGED <<last, before, mergeVars, assignerVars, trackerVars,
                   cleanupVars>>

ConcSpec == Init /\ [][ConcNext]_vars

\* =====================================================================
\*             Specification: sequences of save_activity calls
\* =====================================================================


SaveCall ==
    \E a \in Apps, w \in Titles, s \in Times, e \in Times :
        save_activity(a, w, s, e, FALSE)

Next ==
    /\ SaveCall
    /\ UNCHANGED <<concVars, mergeVars, assignerVars, trackerVars,
                   cleanupVars>>

Spec == Init /\ [][Next]_vars

\* =====================================================================
\*        Specification: the merger applied to every bounded list
\* =====================================================================

MergeNext ==
    /\ \/ set_activities
       \/ merge_again
    /\ UNCHANGED <<storeVars, concVars, assignerVars, trackerVars, cleanupVars>>

\* The widget over an empty, idle store.
TimelineInit ==
    /\ StoreInit /\ CleanupIdle /\ TrackerIdle
    /\ ConcIdle /\ MergeInit /\ AssignerIdle

MergeSpec == TimelineInit /\ [][MergeNext]_vars

\* The widget shows a day and one of its blocks is assigned.
BlockNext ==
    /\ \/ set_activities
       \/ \E k \in 1..MaxLen : assign_to_project(k, OtherProject)
    /\ UNCHANGED <<storeVars, concVars, assignerVars, trackerVars, cleanupVars>>

BlockInit ==
    /\ StoreInit /\ CleanupIdle /\ TrackerIdle
    /\ ConcIdle /\ TitledMergeInit /\ AssignerIdle

BlockSpec == BlockInit /\ [][BlockNext]_vars

\* The merger applied to lists over two projects.
ProjectTimelineInit ==
    /\ StoreInit /\ CleanupIdle /\ TrackerIdle
    /\ ConcIdle /\ ProjectMergeInit /\ AssignerIdle

ProjectMergeSpec == ProjectTimelineInit /\ [][MergeNext]_vars

\* =====================================================================
\*      Specification: the assigner learns once, then is queried
\* =====================================================================

\* Queries do not change the assigner, so each run asks one.
AssignerNext ==
    /\ \/ learned = 0 /\ learn_from_history
       \/ \E activity \in QueryActivities :
              /\ learned = 1 /\ asked.op = "learn_from_history"
              /\ suggest_project(activity)
       \/ \E activity \in QueryActivities, project_id \in AllProjects :
              /\ learned = 1 /\ asked.op = "learn_from_history"
              /\ get_confidence(activity, project_id)
    /\ UNCHANGED <<storeVars, concVars, mergeVars, trackerVars, cleanupVars>>

AssignerStart ==
    /\ StoreInit /\ CleanupIdle /\ TrackerIdle
    /\ ConcIdle /\ MergeIdle /\ AssignerInit

AssignerSpec == AssignerStart /\ [][AssignerNext]_vars

\* =====================================================================
\*     Specification: one bulk operation of a newly made assigner
\* =====================================================================

BulkNext ==
    /\ asked = NoQuery
    /\ \/ auto_assign_unassigned
       \/ get_suggestions_for_review
    /\ UNCHANGED <<storeVars, concVars, mergeVars, trackerVars, cleanupVars>>

BulkStart ==
    /\ StoreInit /\ CleanupIdle /\ TrackerIdle
    /\ ConcIdle /\ MergeIdle /\ BulkInit

BulkSpec == BulkStart /\ [][BulkNext]_vars

\* =====================================================================
\*   Specification: one tracker, its loop threads and start()/stop() calls
\* =====================================================================

TrackerNext ==
    /\ \/ start
       \/ stop
       \/ StopSave
       \/ StopJoin
       \/ StopJoinTimeout
       \/ \E t \in LoopThreads : LoopTest(t)
       \/ \E t \in LoopThreads : LoopBody(t)
       \/ Tick
    /\ UNCHANGED <<storeVars, concVars, mergeVars, assignerVars,
                   cleanupVars>>

TrackerStart ==
    /\ StoreInit /\ CleanupIdle /\ TrackerInit
    /\ ConcIdle /\ MergeIdle /\ AssignerIdle

TrackerSpec == TrackerStart /\ [][TrackerNext]_vars

\* The same tracker with its threads scheduled fairly: a thread that can
\* take its next step takes it (the lock is held for one step only, and
\* time.sleep and join(timeout) return).
TrackerFairness ==
    /\ \A t \in LoopThreads : WF_trackerVars(LoopTest(t))
    /\ \A t \in LoopThreads : WF_trackerVars(LoopBody(t))
    /\ WF_trackerVars(StopSave)
    /\ WF_trackerVars(StopJoin \/ StopJoinTimeout)

TrackerLiveSpec == TrackerStart /\ [][TrackerNext]_vars /\ TrackerFairness

\* =====================================================================
\*        Specification: the batch cleanup of overlapping activities
\* =====================================================================

CleanupNext ==
    /\ \/ ResolveFirst
       \/ CleanupDone
    /\ UNCHANGED <<concVars, mergeVars, assignerVars, trackerVars>>

CleanupStart ==
    CleanupInit /\ TrackerIdle /\ ConcIdle /\ MergeIdle /\ AssignerIdle

CleanupSpec == CleanupStart /\ [][CleanupNext]_vars

\* =====================================================================
\*   Specification: one assigner learns again while the history changes
\* =====================================================================

\* A query is the last step of a run.
RelearnNext ==
    /\ asked.op \in {"none", "learn_from_history"}
    /\ \/ learned < MaxLearns /\ learn_from_history
       \/ \E i \in DOMAIN history, p \in AllProjects \cup {None} :
              history[i].project_id # p /\ assign_activity_to_project(i, p)
       \/ \E i \in DOMAIN history : delete_activities_by_timerange(i)
       \/ \E activity \in QueryActivities :
              asked.op = "learn_from_history" /\ suggest_project(activity)
    /\ UNCHANGED <<storeVars, concVars, mergeVars, trackerVars, cleanupVars>>

RelearnStart ==
    /\ StoreInit /\ CleanupIdle /\ TrackerIdle
    /\ ConcIdle /\ MergeIdle /\ RelearnInit

RelearnSpec == RelearnStart /\ [][RelearnNext]_vars

\* ---------------------------------------------------------------------
\* Vocabulary of the claims about save_activity
\* ---------------------------------------------------------------------

EndOf(E) == E.timestamp + E.duration

\* Seconds that the half-open intervals [s1, e1) and [s2, e2) share.
SharedSeconds(s1, e1, s2, e2) == Max(0, Min(e1, e2) - Max(s1, s2))

\* Two stored activities overlap when their intervals share an instant.
IntervalsOverlap(a, b) ==
    SharedSeconds(a.timestamp, EndOf(a), b.timestamp, EndOf(b)) > 0

\* The overlap test as the specification words it for a new [start, end).
SpecOverlaps(E, new_start, new_end) ==
    E.timestamp < new_end /\ EndOf(E) > new_start

Saved == last.op = "save_activity"

\* The arguments of the last call repeat the unique key of a stored row.
IsDuplicate ==
    \E E \in before :
        UniqueKey(E) = <<last.start_time, last.app_name, last.window_title,
                         last.end_time - last.start_time>>

HasId(S, id) == \E r \in S : r.id = id

\* C1: after any sequence of save_activity calls from the empty store, no
\* two stored activities have overlapping intervals
\* [timestamp, timestamp + duration).
C1_NoOverlap ==
    \A a \in store, b \in store : a.id # b.id => ~IntervalsOverlap(a, b)

\* A save that found two overlapping neighbours and left two rows behind.
C1_Witness ==
    /\ Saved
    /\ Cardinality(Overlapping(before, last.start_time, last.end_time)) >= 2
    /\ Cardinality(store) >= 2
    /\ \E r \in store : r.id # last.ret /\ r.duration > 0

\* C2: every stored E with E.timestamp < end and E.timestamp + E.duration >
\* start is shortened to start - E.timestamp when that is positive, and is
\* deleted otherwise.
C2_EveryOverlapResolved ==
    Saved =>
        \A E \in before :
            SpecOverlaps(E, last.start_time, last.end_time) =>
                IF last.start_time - E.timestamp > 0
                THEN [E EXCEPT !.duration = last.start_time - E.timestamp]
                         \in store
                ELSE ~HasId(store, E.id)

\* C3: save_activity leaves every stored activity that does not overlap the
\* new interval exactly as it was (id, timestamp, duration and the rest).
C3_NonOverlappingUnchanged ==
    Saved =>
        \A E \in before :
            ~SpecOverlaps(E, last.start_time, last.end_time) => E \in store

\* A save next to an activity that ends exactly at the new start, with a
\* second activity separated from the new one by a gap.
C3_Witness ==
    /\ Saved
    /\ last.ret # 0
    /\ last.end_time > last.start_time
    /\ \E E \in before, G \in before :
          /\ E.duration > 0 /\ EndOf(E) = last.start_time
          /\ G.duration > 0 /\ EndOf(G) < last.start_time
          /\ E \in store /\ G \in store

\* C4 as claimed: whenever the new activity shares exactly 1 second with an
\* older stored activity, the older one is shortened by 1 second and stays.
C4_OneSecondOverlapTruncates ==
    Saved =>
        \A E \in before :
            SharedSeconds(E.timestamp, EndOf(E),
                          last.start_time, last.end_time) = 1
                => [E EXCEPT !.duration = E.duration - 1] \in store

\* C4 amended: when the new activity starts exactly 1 second before the end
\* of an older activity that began earlier, and does not end before the older
\* one does, the older one is shortened by 1 second and stays.
C4_LastSecondTruncated ==
    Saved =>
        \A E \in before :
            (/\ E.timestamp < last.start_time
             /\ EndOf(E) = last.start_time + 1
             /\ last.end_time >= EndOf(E))
                => [E EXCEPT !.duration = E.duration - 1] \in store

C4_Witness ==
    /\ Saved
    /\ last.ret # 0
    /\ \E E \in before :
          /\ E.timestamp < last.start_time
          /\ EndOf(E) = last.start_time + 1
          /\ last.end_time >= EndOf(E)
          /\ [E EXCEPT !.duration = E.duration - 1] \in store

\* C5: saving an exact duplicate (timestamp, app_name, window_title,
\* duration) of a stored activity leaves the stored set as it was.
C5_DuplicateIsNoOp ==
    (Saved /\ IsDuplicate) => store = before

\* C6: save_activity returns 0 for an exact duplicate of a stored activity
\* and a positive, previously unused id otherwise.
C6_ReturnValue ==
    Saved =>
        IF IsDuplicate
        THEN last.ret = 0
        ELSE /\ last.ret > 0
             /\ last.ret = nextId - 1
             /\ \A r \in before : r.id < last.ret

\* C9: after an activity of one app, saving an activity of another app with
\* the same start_time and end_time leaves both stored.
C9_BothStored ==
    Saved =>
        \A E \in before :
            (/\ E.timestamp = last.start_time
             /\ EndOf(E) = last.end_time
             /\ E.app_name # last.app_name
             /\ ~IsDuplicate)
                => /\ E \in store
                   /\ last.ret # 0 /\ HasId(store, last.ret)
                   /\ Cardinality(store) >= 2

\* C7: with two threads calling the mutating operations, every
\* save_activity runs its find-overlaps, truncate/delete, insert sequence
\* as one critical section: whenever no call is in progress the table is
\* the one a serial run of the calls (in the order they took the lock)
\* produces, and no two stored activities overlap.
C7_Serializable ==
    lock = "none" =>
        /\ store = serial
        /\ nextId = serialNext
        /\ C1_NoOverlap

\* Both threads have completed a save, the later one having shortened a
\* stored activity, and no call is in progress.
C7_Witness ==
    /\ lock = "none"
    /\ \A t \in Threads : pc[t] = "idle" /\ call[t].op = "save_activity"
                          /\ call[t].ret # 0
    /\ \E r \in store :
          /\ r.duration > 0
          /\ \E t \in Threads :
                /\ call[t].ret > r.id
                /\ EndOf(r) = call[t].start_time
                /\ r \notin tx.before

\* C8: a get_activities call that runs while a save_activity call is in
\* progress returns the table as it was before that save began or as it is
\* after the save has completed, never a state in between.
C8_ReadsSeeNoIntermediate ==
    pc["main"] = "read_done" => readRows \in readFrom

\* C10: the merge is idempotent on its own output: merging the merged
\* blocks again, with the same thresholds, yields the same sequence of
\* blocks (timestamps, durations, end_times, apps, projects, idle flags and
\* titles).
C10_MergeIdempotent ==
    mpc = "remerged" => remerged = activities

\* The second merge has run on at least two blocks, one of which was
\* merged from several activities.
C10_Witness ==
    /\ mpc = "remerged"
    /\ Len(activities) >= 2
    /\ Len(activities) < Len(FilterShort(raw, min_activity_duration))

\* ---------------------------------------------------------------------
\* Vocabulary of the claims about _merge_activities
\* ---------------------------------------------------------------------

\* The activities of the input that pass the duration filter, in input
\* order.
Kept == FilterShort(raw, min_activity_duration)

\* Two blocks share time: [timestamp, end_time) of one meets the other's.
BlocksOverlap(a, b) ==
    a.timestamp < b.end_time /\ b.timestamp < a.end_time

\* Two input activities share time.
InputsOverlap(a, b) ==
    /\ a.timestamp < b.timestamp + b.duration
    /\ b.timestamp < a.timestamp + a.duration

PairwiseDisjointBlocks(blocks) ==
    \A i, j \in DOMAIN blocks : i < j => ~BlocksOverlap(blocks[i], blocks[j])

PairwiseDisjointInputs(acts) ==
    \A i, j \in DOMAIN acts : i < j => ~InputsOverlap(acts[i], acts[j])

Merged == mpc \in {"merged", "remerged"}

\* C11 (as stated): for every input list, overlapping inputs included, the
\* blocks returned by _merge_activities are pairwise non-overlapping.
C11_OutputNonOverlapping ==
    Merged => PairwiseDisjointBlocks(activities)

\* C11 (amended): when the input activities that pass the duration filter
\* are pairwise non-overlapping, the returned blocks are pairwise
\* non-overlapping.
C11_DisjointInputDisjointOutput ==
    (Merged /\ PairwiseDisjointInputs(Kept))
        => PairwiseDisjointBlocks(activities)

\* Three kept, non-overlapping activities given out of time order, two of
\* them merged into one block.
C11_Witness ==
    /\ mpc = "merged"
    /\ Len(Kept) = 3
    /\ PairwiseDisjointInputs(Kept)
    /\ Kept # SortByTimestamp(Kept)
    /\ Len(activities) = 2

\* The input activity as a block of its own.
OwnBlock(a) == WithEndTime(a, a.timestamp + a.duration)

\* The input activity with the given window title (titles tell the
\* activities of a list apart).
ByTitle(title) == CHOOSE a \in {raw[i] : i \in DOMAIN raw} : a.window_title = title

ById(id) == CHOOSE a \in {raw[i] : i \in DOMAIN raw} : a.id = id

\* C12: merging never crosses the idle flag: every kept idle activity is
\* returned as a block of its own (same timestamp, duration, title, end),
\* and a non-idle block starts with, and ends with, a non-idle activity.
C12_IdleNeverMerged ==
    Merged =>
        /\ \A i \in DOMAIN Kept :
              Kept[i].is_idle =>
                  \E j \in DOMAIN activities : activities[j] = OwnBlock(Kept[i])
        /\ \A j \in DOMAIN activities :
              IF activities[j].is_idle
              THEN activities[j] = OwnBlock(ById(activities[j].id))
              ELSE /\ ~ById(activities[j].id).is_idle
                   /\ ~ByTitle(activities[j].window_title).is_idle
                   /\ activities[j].end_time =
                         ByTitle(activities[j].window_title).timestamp
                         + ByTitle(activities[j].window_title).duration

\* An idle activity between two non-idle activities of the same app and
\* project, all within the merge gaps: three blocks are returned.
C12_Witness ==
    /\ mpc = "merged"
    /\ Len(Kept) = 3
    /\ Len(activities) = 3
    /\ ~activities[1].is_idle /\ activities[2].is_idle /\ ~activities[3].is_idle
    /\ \A j \in 1..3 : /\ activities[j].app_name = activities[1].app_name
                       /\ activities[j].project_id = SocialMediaProject
    /\ \A j \in 1..2 :
          activities[j + 1].timestamp - activities[j].end_time
              <= Min(merge_gap, project_merge_gap)

\* What _merge_activities returns for the first k activities of the
\* sorted list: the blocks closed so far followed by the accumulator.
AfterStep(sorted, k) ==
    MergeLoop(OwnBlock(sorted[1]), SubSeq(sorted, 2, k), merge_gap,
              project_merge_gap)

\* The merge rule as the claim states it, for non-idle C and A.
C13_Rule(C, A, gap) ==
    IF /\ C.app_name = A.app_name
       /\ C.project_id # None
       /\ C.project_id = A.project_id
    THEN gap <= project_merge_gap
    ELSE IF C.app_name = A.app_name
         THEN gap <= merge_gap
         ELSE FALSE

\* The (k+1)-th activity of the sorted list meets the accumulator C left by
\* the first k: it is merged exactly when the rule says so, and always when
\* the gap is negative and the apps agree.
RuleDecidesStep(sorted, k) ==
    LET P == AfterStep(sorted, k)
        Q == AfterStep(sorted, k + 1)
        C == P[Len(P)]
        A == sorted[k + 1]
        gap == A.timestamp - C.end_time
        merged == Len(Q) = Len(P)
    IN  (~C.is_idle /\ ~A.is_idle) =>
            /\ merged <=> C13_Rule(C, A, gap)
            /\ (gap < 0 /\ C.app_name = A.app_name) => merged

\* C13: at every step of the fold, for a non-idle accumulator C and a
\* non-idle next activity A: same app and same non-null project merge iff
\* gap <= project_merge_gap; otherwise same app merges iff gap <= merge_gap;
\* different apps never merge; a negative gap between same-app activities
\* always merges.  The result of the last step is the list returned.
C13_MergeRule ==
    (mpc = "merged" /\ Kept # <<>>) =>
        LET sorted == SortByTimestamp(Kept)
        IN  /\ AfterStep(sorted, Len(sorted)) = activities
            /\ \A k \in 1..(Len(sorted) - 1) : RuleDecidesStep(sorted, k)

\* project_merge_gap < merge_gap; the accumulator is a block merged from two
\* activities of different projects, the third activity has the same app
\* and the accumulator's project and comes after a gap of merge_gap: it is
\* not merged.
C13_Witness ==
    /\ mpc = "merged"
    /\ project_merge_gap < merge_gap
    /\ Len(Kept) = 3
    /\ Len(activities) = 2
    /\ LET sorted == SortByTimestamp(Kept)
       IN  /\ Len(AfterStep(sorted, 2)) = 1
           /\ sorted[1].project_id = SocialMediaProject
           /\ sorted[2].project_id = OtherProject
           /\ sorted[3].project_id = SocialMediaProject
           /\ sorted[3].app_name = sorted[1].app_name
           /\ sorted[3].timestamp - AfterStep(sorted, 2)[1].end_time
                 = merge_gap

\* The input list with the activities shorter than min_activity_duration
\* removed.
WithoutShort ==
    SelectSeq(raw, LAMBDA a : a.duration >= min_activity_duration)

\* Activity a of the input is shown: it opens a block, or a block of its
\* app that began no later took it in.
Shown(a) ==
    \E j \in DOMAIN activities :
        \/ activities[j].id = a.id /\ activities[j].timestamp = a.timestamp
        \/ /\ activities[j].id # a.id
           /\ activities[j].app_name = a.app_name
           /\ activities[j].timestamp <= a.timestamp
           /\ ~activities[j].is_idle /\ ~a.is_idle

\* Activities i and k of a three-element input are of one app, not idle,
\* and only the short activity j of another app lies between them.
SeparatedByShort(i, j, k) ==
    /\ Len(raw) = 3 /\ {i, j, k} = 1..3
    /\ raw[j].duration < min_activity_duration
    /\ raw[i].duration >= min_activity_duration
    /\ raw[k].duration >= min_activity_duration
    /\ raw[i].timestamp <= raw[j].timestamp
    /\ raw[j].timestamp <= raw[k].timestamp
    /\ (raw[i].timestamp = raw[k].timestamp) => i < k
    /\ raw[i].app_name = raw[k].app_name
    /\ raw[j].app_name # raw[i].app_name
    /\ ~raw[i].is_idle /\ ~raw[k].is_idle

\* C14: activities shorter than min_activity_duration have no effect on
\* the result (it is the result for the list without them), an activity
\* with duration exactly min_activity_duration is kept, and two same-app
\* activities with only a dropped short activity of another app between
\* them are merged when their gap passes the gap test.
C14_ShortActivitiesHaveNoEffect ==
    Merged =>
        /\ activities = MergeActivities(WithoutShort, min_activity_duration,
                                        merge_gap, project_merge_gap)
        /\ \A i \in DOMAIN raw :
              raw[i].duration = min_activity_duration => Shown(raw[i])
        /\ \A i \in DOMAIN raw :
              raw[i].duration < min_activity_duration =>
                  \A j \in DOMAIN activities : activities[j].id # raw[i].id
        /\ \A i, j, k \in DOMAIN raw :
              (/\ SeparatedByShort(i, j, k)
               /\ C13_Rule(raw[i], raw[k],
                           raw[k].timestamp
                           - (raw[i].timestamp + raw[i].duration)))
                  => Len(activities) = 1

\* Two activities of exactly the minimum duration and one app, a shorter
\* activity of the other app between them: one block is returned.
C14_Witness ==
    /\ mpc = "merged"
    /\ \E i, j, k \in DOMAIN raw :
          /\ SeparatedByShort(i, j, k)
          /\ raw[i].duration = min_activity_duration
          /\ raw[k].duration = min_activity_duration
          /\ raw[i].timestamp < raw[j].timestamp
    /\ Len(activities) = 1
    /\ activities[1].duration > min_activity_duration

\* Block b carries the fields of input activity a.
SameFields(b, a) ==
    /\ b.timestamp = a.timestamp
    /\ b.duration = a.duration
    /\ b.app_name = a.app_name
    /\ b.window_title = a.window_title
    /\ b.project_id = a.project_id
    /\ b.is_idle = a.is_idle

\* C15 (as stated): the empty list gives the empty list, and a list of one
\* activity gives a list of one block with that activity's fields.
C15_EmptyAndSingle ==
    Merged =>
        /\ raw = <<>> => activities = <<>>
        /\ Len(raw) = 1 =>
              Len(activities) = 1 /\ SameFields(activities[1], raw[1])

\* C15 (amended): the empty list gives the empty list; a list of one
\* activity with duration >= min_activity_duration gives one block with
\* that activity's fields and its end_time; a list of one shorter activity
\* gives the empty list.
C15_EmptyAndSingleKept ==
    Merged =>
        /\ raw = <<>> => activities = <<>>
        /\ Len(raw) = 1 =>
              IF raw[1].duration >= min_activity_duration
              THEN /\ Len(activities) = 1
                   /\ SameFields(activities[1], raw[1])
                   /\ activities[1].end_time
                         = raw[1].timestamp + raw[1].duration
              ELSE activities = <<>>

\* A single activity long enough to be kept has been merged.
C15_Witness ==
    /\ mpc = "merged"
    /\ Len(raw) = 1
    /\ raw[1].duration >= min_activity_duration
    /\ Len(activities) = 1

\* ---------------------------------------------------------------------
\* Vocabulary of the claims about the assigner
\* ---------------------------------------------------------------------

\* Sum of weight[i] over the indices i in S.
RECURSIVE SumOver(_, _)
SumOver(S, weight) ==
    IF S = {} THEN 0
    ELSE LET i == CHOOSE x \in S : TRUE
         IN  weight[i] + SumOver(S \ {i}, weight)

\* The positions of the history that hold an activity assigned to p.
AssignedTo(p) == {i \in DOMAIN history : history[i].project_id = p}

AssignedApps ==
    {history[i].app_name :
        i \in {j \in DOMAIN history : history[j].project_id # None}}

\* Summed duration of the app's activities assigned to project p.
AppDuration(app_name, p) ==
    SumOver({i \in AssignedTo(p) : history[i].app_name = app_name},
            [i \in DOMAIN history |-> history[i].duration])

\* Number of the app's activities assigned to project p.
AppCount(app_name, p) ==
    Cardinality({i \in AssignedTo(p) : history[i].app_name = app_name})

Asked(op) == learned >= 1 /\ asked.op = op

\* C16: get_confidence returns a value in [0, 1] (0..100 hundredths): 60
\* if the app map entry equals project_id, plus 40 * matching / total
\* keywords of the title, capped at 100.
C16_ConfidenceRange ==
    Asked("get_confidence") =>
        LET a == asked.activity
            p == asked.project_id
            tokens == Keywords(a.window_title)
            matching ==
                Cardinality({i \in DOMAIN tokens :
                                /\ tokens[i] \in DOMAIN keyword_project_map
                                /\ keyword_project_map[tokens[i]] = p})
            app_part ==
                IF /\ a.app_name \in DOMAIN app_project_map
                   /\ app_project_map[a.app_name] = p
                THEN 60 ELSE 0
            keyword_part ==
                IF Len(tokens) = 0 THEN 0
                ELSE (40 * matching) \div Len(tokens)
        IN  /\ answer \in 0..100
            /\ answer = Min(100, app_part + keyword_part)

\* The app map agrees with the project and one of the three keywords of
\* the title maps to it: 0.6 + 0.4 / 3, 73 hundredths.
C16_Witness ==
    /\ Asked("get_confidence")
    /\ asked.activity.app_name \in DOMAIN app_project_map
    /\ app_project_map[asked.activity.app_name] = asked.project_id
    /\ Len(Keywords(asked.activity.window_title)) = 3
    /\ answer = 73

\* C17: after learn_from_history on a fresh assigner, every app among the
\* assigned activities is mapped to a project whose summed duration under
\* that app is the largest; suggest_project for an unassigned activity of
\* the app returns that project, and get_confidence for the pair is at
\* least 0.6.
C17_AppMapByDuration ==
    learned = 1 =>
        /\ \A app_name \in AssignedApps :
              /\ app_name \in DOMAIN app_project_map
              /\ app_project_map[app_name] \in AllProjects
              /\ \A p \in AllProjects :
                    AppDuration(app_name, app_project_map[app_name])
                        >= AppDuration(app_name, p)
        /\ (Asked("suggest_project")
            /\ asked.activity.app_name \in AssignedApps)
              => answer = app_project_map[asked.activity.app_name]
        /\ (/\ Asked("get_confidence")
            /\ asked.activity.app_name \in AssignedApps
            /\ asked.project_id = app_project_map[asked.activity.app_name])
              => answer >= 60

\* An app with more activities of one project and more seconds of the
\* other; the project with more seconds is suggested.
C17_Witness ==
    /\ learned = 1
    /\ Asked("suggest_project")
    /\ asked.activity.app_name \in AssignedApps
    /\ \E p \in AllProjects :
          /\ AppCount(asked.activity.app_name, p)
                > AppCount(asked.activity.app_name, answer)
          /\ AppDuration(asked.activity.app_name, p)
                < AppDuration(asked.activity.app_name, answer)

\* The lowercased words of the titles of the model.
TitleWords == {"invoice", "report", "fix"}

\* Summed duration of keyword k under project p: the duration of each
\* activity assigned to p, once per occurrence of k in its title.
KeywordDuration(k, p) ==
    SumOver(AssignedTo(p),
            [i \in DOMAIN history |->
                history[i].duration
                * Occurrences(Keywords(history[i].window_title), k)])

KeywordTotal(k) ==
    KeywordDuration(k, SocialMediaProject) + KeywordDuration(k, OtherProject)

\* C18: after learn_from_history on a fresh assigner, a keyword is mapped
\* to project p iff p's summed duration for the keyword is strictly more
\* than 60% of the keyword's total duration; words shorter than 4 letters
\* are never keys.
C18_KeywordThreshold ==
    learned = 1 =>
        /\ \A k \in TitleWords, p \in AllProjects :
              (k \in DOMAIN keyword_project_map
               /\ keyword_project_map[k] = p)
                  <=> 5 * KeywordDuration(k, p) > 3 * KeywordTotal(k)
        /\ \A k \in DOMAIN keyword_project_map :
              k \in TitleWords /\ Len(k) >= 4

\* The positions of the title's keywords that the keyword map sends to p.
VotesFor(activity, p) ==
    {i \in DOMAIN Keywords(activity.window_title) :
        /\ Keywords(activity.window_title)[i] \in DOMAIN keyword_project_map
        /\ keyword_project_map[Keywords(activity.window_title)[i]] = p}

\* p has the most votes, and among the projects with as many votes its
\* first vote comes first.
WinsVote(activity, p) ==
    /\ VotesFor(activity, p) # {}
    /\ \A q \in AllProjects \ {p} :
          \/ Cardinality(VotesFor(activity, q))
                < Cardinality(VotesFor(activity, p))
          \/ /\ Cardinality(VotesFor(activity, q))
                   = Cardinality(VotesFor(activity, p))
             /\ \E j \in VotesFor(activity, p) :
                   \A l \in VotesFor(activity, q) : j < l

\* C19: suggest_project returns the app map entry whenever the app is a
\* key of the app map, whatever the keywords vote for; otherwise the
\* project with the most keyword votes (the first one reached on ties);
\* otherwise None.
C19_SuggestPrecedence ==
    Asked("suggest_project") =>
        IF asked.activity.app_name \in DOMAIN app_project_map
        THEN answer = app_project_map[asked.activity.app_name]
        ELSE IF \E p \in AllProjects : VotesFor(asked.activity, p) # {}
             THEN answer \in AllProjects /\ WinsVote(asked.activity, answer)
             ELSE answer = None

\* The app map has the app, and every keyword of the title votes for the
\* other project: the app map's project is suggested.
C19_Witness ==
    /\ Asked("suggest_project")
    /\ asked.activity.app_name \in DOMAIN app_project_map
    /\ \E p \in AllProjects :
          /\ p # answer
          /\ Cardinality(VotesFor(asked.activity, p)) = 3
    /\ answer = app_project_map[asked.activity.app_name]

\* The maps hold exactly the entries derivable from the activities
\* assigned now.
MapsAreFresh ==
    /\ DOMAIN app_project_map = AssignedApps
    /\ \A app_name \in AssignedApps, p \in AllProjects :
          AppDuration(app_name, app_project_map[app_name])
              >= AppDuration(app_name, p)
    /\ \A k \in TitleWords, p \in AllProjects :
          (k \in DOMAIN keyword_project_map /\ keyword_project_map[k] = p)
              <=> 5 * KeywordDuration(k, p) > 3 * KeywordTotal(k)
    /\ DOMAIN keyword_project_map \subseteq TitleWords

\* C20: whatever assignments, un-assignments, deletions and learn calls
\* came before, right after learn_from_history the maps hold exactly the
\* entries derivable from the currently assigned activities; when no
\* activity is assigned both maps are empty and every suggest_project
\* call returns None.
C20_LearnBuildsFresh ==
    /\ asked.op = "learn_from_history" => MapsAreFresh
    /\ (/\ learned >= 1
        /\ asked.op \in {"learn_from_history", "suggest_project"}
        /\ AssignedApps = {})
          => /\ app_project_map = EmptyMap
             /\ keyword_project_map = EmptyMap
             /\ asked.op = "suggest_project" => answer = None

\* ---------------------------------------------------------------------
\* Vocabulary of the claims about the bulk operations
\* ---------------------------------------------------------------------

\* The project suggested, by the maps the call has learned, for an activity.
Suggested(a) == SuggestProject(app_project_map, keyword_project_map, a)

\* The activity at position i of the history before the call is unassigned,
\* in range, and has a suggestion with confidence >= min_confidence.
Qualifies(i) ==
    LET a == asked.before[i]
    IN  /\ i \in asked.lo..asked.hi
        /\ a.project_id = None
        /\ Suggested(a) # None
        /\ Confidence(app_project_map, keyword_project_map, a, Suggested(a))
              >= asked.min_confidence

\* C21: auto_assign_unassigned changes the project_id of no activity in a
\* dry run, and otherwise of exactly the unassigned activities in range
\* whose suggestion has confidence >= min_confidence, each set to its
\* suggested project; assigned activities and all other fields stay as they
\* were; assigned = number of listed assignments, and assigned +
\* skipped_low_confidence <= total_unassigned.  A call that raises changes
\* no activity.
C21_AutoAssignFrame ==
    Asked("auto_assign_unassigned") =>
        /\ DOMAIN history = DOMAIN asked.before
        /\ answer.raised => history = asked.before
        /\ ~answer.raised =>
              /\ \A i \in DOMAIN history :
                    history[i] =
                        IF ~asked.dry_run /\ Qualifies(i)
                        THEN [asked.before[i] EXCEPT
                                 !.project_id = Suggested(asked.before[i])]
                        ELSE asked.before[i]
              /\ answer.assigned = Len(answer.assignments)
              /\ answer.assigned =
                    Cardinality({i \in DOMAIN history : Qualifies(i)})
              /\ answer.assigned + answer.skipped_low_confidence
                    <= answer.total_unassigned
              /\ answer.total_unassigned =
                    Cardinality({i \in asked.lo..asked.hi :
                                    /\ i \in DOMAIN history
                                    /\ asked.before[i].project_id = None})

\* A call that writes one assignment, skips an activity of low confidence
\* and meets an assigned activity in its range.
C21_Witness ==
    /\ Asked("auto_assign_unassigned")
    /\ ~answer.raised
    /\ ~asked.dry_run
    /\ answer.assigned = 1
    /\ answer.skipped_low_confidence = 1
    /\ history # asked.before
    /\ \E i \in asked.lo..asked.hi : asked.before[i].project_id # None

\* The suggestions are ordered by descending confidence.
Descending(suggestions) ==
    \A i, j \in DOMAIN suggestions :
        i < j => suggestions[i].confidence >= suggestions[j].confidence

\* The eligible activities of the range: unassigned, duration >=
\* min_duration, and suggest_project returns a project.
Eligible ==
    {i \in asked.lo..asked.hi :
        /\ i \in DOMAIN asked.before
        /\ asked.before[i].project_id = None
        /\ asked.before[i].duration >= asked.min_duration
        /\ Suggested(asked.before[i]) # None}

\* C22: get_suggestions_for_review never writes, returns only suggestions
\* for unassigned activities with duration >= min_duration, sorted by
\* descending confidence, and returns min(limit, N) of them, N being the
\* number of eligible activities with a suggestion.
C22_ReviewSuggestions ==
    (Asked("get_suggestions_for_review") /\ ~answer.raised) =>
        /\ history = asked.before
        /\ \A k \in DOMAIN answer.suggestions :
              /\ answer.suggestions[k].activity.project_id = None
              /\ answer.suggestions[k].activity.duration
                    >= asked.min_duration
        /\ Descending(answer.suggestions)
        /\ Len(answer.suggestions)
              = Min(asked.limit, Cardinality(Eligible))

\* ---------------------------------------------------------------------
\* Vocabulary of the claims about the tracker
\* ---------------------------------------------------------------------

\* The tracking loop threads that have been started and have not ended.
AliveLoops == {t \in LoopThreads : loop_pc[t] # "dead"}

\* What start() and stop() write.
TrackerFields == <<is_running, stop_event, current_activity, start_time,
                   tracker_thread, loop_pc, last_saved, nsaves>>

\* C23: across any interleaving of start() and stop() calls, stop()
\* followed quickly by start() included, at most one tracking loop thread
\* is running at any time (start() while running is a no-op).
C23_AtMostOneLoopThread == Cardinality(AliveLoops) <= 1

\* C24: stop() on a running tracker saves the pending current activity when
\* it is at least 1 second old and makes is_running false, and when no
\* start() follows every tracking thread eventually terminates; stop() on a
\* tracker that is not running does nothing.
C24_StopSavesAndTerminates ==
    /\ [][(main_pc = "stop_save" /\ main_pc' = "stop_join") =>
             /\ ~is_running'
             /\ (/\ current_activity # NoWindow
                 /\ start_time # None
                 /\ now - start_time >= 1) =>
                    /\ nsaves' = nsaves + 1
                    /\ last_saved' =
                          [app_name |-> current_activity.app_name,
                           window_title |-> current_activity.window_title,
                           start_time |-> start_time, end_time |-> now,
                           is_idle |-> FALSE, by |-> "stop"]]_vars
    /\ [][(ncalls' # ncalls /\ last_call' = "stop" /\ ~is_running) =>
             UNCHANGED <<TrackerFields, main_pc>>]_vars
    /\ (~is_running) ~> (is_running \/ AliveLoops = {})

\* stop() has saved a pending activity and returned, and the thread has
\* ended.
C24_Witness ==
    /\ last_call = "stop"
    /\ main_pc = "idle"
    /\ ~is_running
    /\ last_saved.by = "stop"
    /\ last_saved.end_time = now
    /\ AliveLoops = {}

\* An iteration of the loop of thread t.
Iterates(t) == loop_pc[t] = "body" /\ loop_pc'[t] = "test"

\* The window the iteration has read differs from the current activity.
WindowChanged ==
    /\ polled'.window # NoWindow
    /\ polled'.window # current_activity

\* The current activity and its start time when the idle check is reached.
CheckedActivity == IF WindowChanged THEN polled'.window ELSE current_activity

CheckedStart == IF WindowChanged THEN now ELSE start_time

\* C25: when the idle time exceeds idle_threshold and no audio is playing
\* while a current activity at least 1 second old exists, the loop saves
\* that activity with is_idle true and clears the current activity and the
\* start time; no activity is saved as idle while audio is playing or while
\* the idle time is at or below the threshold.
C25_IdleSave ==
    /\ [][\A t \in LoopThreads :
            (/\ Iterates(t)
             /\ polled'.idle_time > idle_threshold
             /\ ~polled'.is_audio_playing
             /\ CheckedActivity # NoWindow
             /\ CheckedStart # None
             /\ now - CheckedStart >= 1) =>
                /\ nsaves' = nsaves + 1
                /\ last_saved' =
                      [app_name |-> CheckedActivity.app_name,
                       window_title |-> CheckedActivity.window_title,
                       start_time |-> CheckedStart, end_time |-> now,
                       is_idle |-> TRUE, by |-> "loop"]
                /\ current_activity' = NoWindow
                /\ start_time' = None]_vars
    /\ [][(nsaves' # nsaves /\ last_saved'.is_idle) =>
             /\ polled'.idle_time > idle_threshold
             /\ ~polled'.is_audio_playing]_vars

\* The loop has saved an activity as idle and cleared it.
C25_Witness ==
    /\ last_saved.by = "loop"
    /\ last_saved.is_idle
    /\ last_saved.end_time = now
    /\ last_saved.end_time - last_saved.start_time >= 1
    /\ polled.idle_time > idle_threshold
    /\ ~polled.is_audio_playing
    /\ current_activity = NoWindow
    /\ start_time = None

\* C28: after stop() followed later by start(), no activity saved by the
\* tracker has an interval [start_time, end_time) that reaches into the time
\* between the return of stop() and the call of start(), also when the same
\* window is active before and after the pause.
C28_PausedTimeNotAttributed ==
    last_saved # NoSave =>
        \A p \in pauses :
            p[1] < p[2] =>
                ~(last_saved.start_time < p[2] /\ last_saved.end_time > p[1])

\* ---------------------------------------------------------------------
\* The duplicate-drop path of save_activity
\* ---------------------------------------------------------------------

\* C26: a save_activity call that ends in the duplicate-drop path (it
\* returns 0) has no effect on the store: the rows that later reads see and
\* the rows that the next commit makes durable are those from before the
\* call, no truncation or deletion of that call remaining.
C26_DuplicateDropHasNoEffect ==
    (Saved /\ last.ret = 0) => store = before

\* ---------------------------------------------------------------------
\* Vocabulary of the claims about the blocks and their constituents
\* ---------------------------------------------------------------------

\* The activities of a list that pass the duration filter, oldest first.
SortedKept(acts) == SortByTimestamp(FilterShort(acts, min_activity_duration))

PositionIn(sorted, id) == CHOOSE i \in DOMAIN sorted : sorted[i].id = id

\* The blocks are successive runs of the sorted list, each block carrying
\* the id of the activity its run begins with.
BlocksPartition(acts, blocks) ==
    LET sorted == SortedKept(acts)
    IN  /\ (blocks = <<>>) <=> (sorted = <<>>)
        /\ \A k \in DOMAIN blocks :
              \E i \in DOMAIN sorted : sorted[i].id = blocks[k].id
        /\ blocks # <<>> => PositionIn(sorted, blocks[1].id) = 1
        /\ \A k \in DOMAIN blocks :
              k < Len(blocks) =>
                  PositionIn(sorted, blocks[k].id)
                      < PositionIn(sorted, blocks[k + 1].id)

\* The activities merged into block k.
Constituents(acts, blocks, k) ==
    LET sorted == SortedKept(acts)
    IN  SubSeq(sorted, PositionIn(sorted, blocks[k].id),
               IF k = Len(blocks) THEN Len(sorted)
               ELSE PositionIn(sorted, blocks[k + 1].id) - 1)

\* The last non-empty window title of the constituents, "" if there is none.
LastNonEmptyTitle(cs) ==
    LET titled == {i \in DOMAIN cs : cs[i].window_title # ""}
    IN  IF titled = {} THEN ""
        ELSE cs[CHOOSE i \in titled : \A j \in titled : j <= i].window_title

\* What the claim says of a block apart from its end_time.
BlockCarries(b, cs) ==
    /\ b.timestamp = cs[1].timestamp
    /\ b.duration = b.end_time - b.timestamp
    /\ b.window_title = LastNonEmptyTitle(cs)
    /\ b.id = cs[1].id
    /\ b.project_id = cs[1].project_id
    /\ b.is_idle = cs[1].is_idle
    /\ b.app_name = cs[1].app_name

\* [timestamp, end_time) of the block covers every constituent.
Covers(b, cs) ==
    \A i \in DOMAIN cs :
        /\ b.timestamp <= cs[i].timestamp
        /\ cs[i].timestamp + cs[i].duration <= b.end_time

\* C27 (as stated): every block has the timestamp of its first constituent,
\* an end_time that no merge step decreased, so that [timestamp, end_time)
\* covers every constituent, duration = end_time - timestamp, the last
\* non-empty title of its constituents, and id, project_id and is_idle of
\* its first constituent.
C27_BlockFields ==
    mpc = "merged" =>
        /\ BlocksPartition(raw, activities)
        /\ \A k \in DOMAIN activities :
              /\ BlockCarries(activities[k], Constituents(raw, activities, k))
              /\ Covers(activities[k], Constituents(raw, activities, k))

\* C27 (amended): as stated, except that end_time is the end of the last
\* constituent; [timestamp, end_time) covers every constituent when the
\* constituents do not overlap one another.
C27_BlockFieldsLastEnd ==
    mpc = "merged" =>
        /\ BlocksPartition(raw, activities)
        /\ \A k \in DOMAIN activities :
              LET cs == Constituents(raw, activities, k)
              IN  /\ BlockCarries(activities[k], cs)
                  /\ activities[k].end_time
                        = cs[Len(cs)].timestamp + cs[Len(cs)].duration
                  /\ PairwiseDisjointInputs(cs) => Covers(activities[k], cs)

\* A block merged from three activities that do not overlap, the last one
\* without a title and the first one alone assigned to a project.
C27_Witness ==
    /\ mpc = "merged"
    /\ \E k \in DOMAIN activities :
          LET cs == Constituents(raw, activities, k)
          IN  /\ Len(cs) = 3
              /\ PairwiseDisjointInputs(cs)
              /\ cs[3].window_title = ""
              /\ cs[2].window_title # ""
              /\ cs[1].window_title # ""
              /\ cs[1].project_id # None
              /\ cs[2].project_id = None

\* C29: assigning a merged block to a project changes the project_id of
\* exactly the stored activities that were merged into the block: every
\* constituent is assigned and no other stored activity is.
C29_AssignsExactlyConstituents ==
    mpc = "assigned" =>
        LET before_raw == assigned_block.raw
            cs == Constituents(before_raw, assigned_block.activities,
                               assigned_block.k)
            ids == {cs[i].id : i \in DOMAIN cs}
        IN  /\ DOMAIN raw = DOMAIN before_raw
            /\ \A i \in DOMAIN raw :
                  raw[i] = IF before_raw[i].id \in ids
                           THEN [before_raw[i] EXCEPT
                                    !.project_id = assigned_block.project_id]
                           ELSE before_raw[i]

\* ---------------------------------------------------------------------
\* The batch cleanup
\* ---------------------------------------------------------------------

\* C30: from any stored set of activities with positive durations the
\* cleanup loop terminates, and when it has finished no two stored
\* activities have overlapping intervals, whatever the order of their ids
\* and also when two activities share a timestamp.
C30_CleanupLeavesNoOverlap ==
    cleanup_pc = "done" =>
        \A a \in store, b \in store :
            a.id # b.id => ~IntervalsOverlap(a, b)

====
